---- MODULE Spec2Model ----
(***************************************************************************)
(* Model of pyRSS: the SQLite-backed store of src/src/pyrss.py (RSSStore), *)
(* together with the earlier release src/src/rsscli.py, which creates the  *)
(* same database file without the category column, the filters table and   *)
(* the full-text index.                                                    *)
(*                                                                         *)
(* Text values are sequences of one-character strings, so that strip,      *)
(* split and truncation are computed as the code computes them.  SQL NULL  *)
(* / Python None of a text value is the value None below; an absent        *)
(* timestamp is NoTime.  Timestamps are whole seconds of the UTC clock     *)
(* `now`; the ISO text the code stores is represented by its instant.      *)
(*                                                                         *)
(* Every method of RSSStore is an operator from the database (a record of  *)
(* its tables) and the arguments to the new database and the outcome; the  *)
(* actions apply these operators to the state.                             *)
(***************************************************************************)
EXTENDS Integers, Sequences, FiniteSets, TLC

\* ---------------------------------------------------------------------
\* Bounds of the model
\* ---------------------------------------------------------------------
MaxNow == 1
MaxFeedRows == 2
MaxEntries == 2
MaxFilterRows == 2
\* The length of a day, in seconds of the clock.
DayLen == 2

\* ---------------------------------------------------------------------
\* Values
\* ---------------------------------------------------------------------
None == <<"None">>
NoTime == 0 - 1
BadTime == 0 - 2
NoLimit == 0 - 1
NoColumn == <<"NoColumn">>
DefaultCategory == <<"d", "e", "f", "a", "u", "l", "t">>
FeedTitleMax == 500
EntryTitleMax == 2000
EntryLinkMax == 4000
EntryAuthorMax == 1000
NotModified == 304
LimitMax == 500

\* Python truthiness of an optional text value: None and "" are falsy.
Truthy(v) == v # None /\ v # <<>>

RECURSIVE LStrip(_)
LStrip(s) == IF s # <<>> /\ Head(s) = " " THEN LStrip(Tail(s)) ELSE s

RECURSIVE RStrip(_)
RStrip(s) == IF s # <<>> /\ s[Len(s)] = " " THEN RStrip(SubSeq(s, 1, Len(s) - 1)) ELSE s

\* str.strip()
strip(s) == RStrip(LStrip(s))

\* hashlib.sha256(raw).hexdigest(): a digest is the tagged preimage (collision free).
Sha256Hex(raw) == <<"sha256">> \o raw

utc_now_iso(t) == t

to_iso_dt(dt) == IF dt = NoTime THEN NoTime ELSE dt

\* Faulty variant of entry_guid: the link is looked at before the guid.
entry_guid_link_first(entry) ==
    IF Truthy(entry.id) THEN strip(entry.id)
    ELSE IF Truthy(entry.link) THEN strip(entry.link)
    ELSE IF Truthy(entry.guid) THEN strip(entry.guid)
    ELSE LET title == strip(IF entry.title = None THEN <<>> ELSE entry.title)
             published == strip(IF entry.published = None THEN <<>> ELSE entry.published)
         IN  Sha256Hex(title \o <<"|">> \o published)

\* A field of value None stands for a key the entry does not have.
entry_guid(entry) ==
    IF Truthy(entry.id) THEN strip(entry.id)
    ELSE IF Truthy(entry.guid) THEN strip(entry.guid)
    ELSE IF Truthy(entry.link) THEN strip(entry.link)
    ELSE LET title == strip(IF entry.title = None THEN <<>> ELSE entry.title)
             published == strip(IF entry.published = None THEN <<>> ELSE entry.published)
         IN  Sha256Hex(title \o <<"|">> \o published)

normalize_text(v, max_len) ==
    IF v = None THEN None
    ELSE LET s == strip(v)
         IN  IF s = <<>> THEN None
             ELSE IF max_len # NoLimit /\ Len(s) > max_len THEN SubSeq(s, 1, max_len)
             ELSE s

pick_summary(entry) ==
    IF Truthy(entry.summary) THEN normalize_text(entry.summary, NoLimit)
    ELSE IF Truthy(entry.subtitle) THEN normalize_text(entry.subtitle, NoLimit)
    ELSE None

\* entry.content is the list of the values of its representations (<<>>: no list).
pick_content(entry) ==
    IF entry.content # <<>> THEN normalize_text(Head(entry.content), NoLimit) ELSE None

\* The result BadTime stands for the ValueError datetime(*st[:6]) raises.
parse_entry_datetime(entry) ==
    IF entry.published_parsed # NoTime THEN entry.published_parsed
    ELSE IF entry.updated_parsed # NoTime THEN entry.updated_parsed
    ELSE NoTime

\* ---------------------------------------------------------------------
\* State
\* ---------------------------------------------------------------------
VARIABLES
    now,            \* the UTC clock, in seconds
    fts5,           \* whether the SQLite build of this machine has FTS5
    schema,         \* which tables and columns the database file has
    feeds,          \* table feeds: id -> row
    feed_seq,       \* AUTOINCREMENT counter of feeds
    entries,        \* table entries: set of rows
    entry_seq,      \* AUTOINCREMENT counter of entries
    feed_filters,   \* table feed_filters: set of rows
    filter_seq,     \* AUTOINCREMENT counter of feed_filters
    entries_fts,    \* virtual table entries_fts: set of index rows
    store,          \* the RSSStore object: release and _fts_enabled
    pc,             \* "idle", or "fetching" while fetch_all loops
    pending,        \* fetch_all: the feed rows not yet processed
    summary,        \* fetch_all: the summary being built
    attempted,      \* fetch_all: ids of the feeds attempted in this run, in order
    last_pass       \* fetch_all: what the last iteration of the loop met

run == <<pc, pending, summary, attempted, last_pass>>
vars == <<now, fts5, schema, feeds, feed_seq, entries, entry_seq, feed_filters,
          filter_seq, entries_fts, store, pc, pending, summary, attempted, last_pass>>

\* The database file as one value.
Db ==
    [schema |-> schema, feeds |-> feeds, feed_seq |-> feed_seq, entries |-> entries,
     entry_seq |-> entry_seq, feed_filters |-> feed_filters, filter_seq |-> filter_seq,
     entries_fts |-> entries_fts]

\* The database file becomes D.
Write(D) ==
    /\ schema' = D.schema
    /\ feeds' = D.feeds
    /\ feed_seq' = D.feed_seq
    /\ entries' = D.entries
    /\ entry_seq' = D.entry_seq
    /\ feed_filters' = D.feed_filters
    /\ filter_seq' = D.filter_seq
    /\ entries_fts' = D.entries_fts

\* Faulty variant of Committed: the partial writes of a block that raises stay.
CommittedAlways(raised, before, after) == after

\* _conn: commit when the block ends normally; close without commit (the
\* transaction is rolled back) when the block raises.
Committed(raised, before, after) == IF raised THEN before ELSE after

EmptyFn == [x \in {} |-> x]

\* last_pass outside the loop of fetch_all; status 0: parse raised.
NoPass == [status |-> 0, raised |-> FALSE]

EmptySummary ==
    [feeds_total |-> 0, feeds_fetched |-> 0, entries_inserted |-> 0,
     entries_seen |-> 0, errors |-> <<>>]

\* The state when the program is first started, the clock showing t.
InitAt(t) ==
    /\ now = t
    /\ fts5 \in BOOLEAN
    /\ schema = [feeds |-> FALSE, category |-> FALSE, filters |-> FALSE, fts |-> FALSE]
    /\ feeds = EmptyFn
    /\ feed_seq = 0
    /\ entries = {}
    /\ entry_seq = 0
    /\ feed_filters = {}
    /\ filter_seq = 0
    /\ entries_fts = {}
    /\ store = [release |-> "none", fts_enabled |-> FALSE]
    /\ pc = "idle"
    /\ pending = <<>>
    /\ summary = EmptySummary
    /\ attempted = <<>>
    /\ last_pass = NoPass

Init == InitAt(0)

\* ---------------------------------------------------------------------
\* Opening the store
\* ---------------------------------------------------------------------
\* rsscli.py _init_db: CREATE TABLE IF NOT EXISTS feeds, entries.
old_init_db(D) == [D EXCEPT !.schema.feeds = TRUE]

\* Faulty variant of AddCategoryColumn: the column is added without its DEFAULT.
AddCategoryColumnNull(fs) == [i \in DOMAIN fs |-> [fs[i] EXCEPT !.category = None]]

\* ALTER TABLE feeds ADD COLUMN category TEXT NOT NULL DEFAULT 'default'
AddCategoryColumn(fs) == [i \in DOMAIN fs |-> [fs[i] EXCEPT !.category = DefaultCategory]]

\* pyrss.py _init_db; has_fts5: executescript(SCHEMA_FTS_SQL) does not raise.
init_db(D, has_fts5) ==
    [D EXCEPT !.schema = [feeds |-> TRUE, category |-> TRUE, filters |-> TRUE,
                          fts |-> D.schema.fts \/ has_fts5],
              !.feeds = IF D.schema.feeds /\ ~D.schema.category
                        THEN AddCategoryColumn(D.feeds) ELSE D.feeds]

\* rsscli.py RSSStore(db_path).  The earlier release is not run on a store again
\* once the later release has opened it.
OldOpen ==
    /\ pc = "idle"
    /\ store.release # "new"
    /\ Write(old_init_db(Db))
    /\ store' = [release |-> "old", fts_enabled |-> FALSE]
    /\ UNCHANGED <<now, fts5, run>>

\* pyrss.py RSSStore(db_path)
Open ==
    /\ pc = "idle"
    /\ Write(init_db(Db, fts5))
    /\ store' = [release |-> "new", fts_enabled |-> fts5]
    /\ UNCHANGED <<now, fts5, run>>

\* ---------------------------------------------------------------------
\* Feeds
\* ---------------------------------------------------------------------
UrlInputs == {<<" ">>, <<"a">>, <<" ", "a">>, <<"b">>}
CategoryInputs == {<<>>, <<"n", " ">>, <<"v">>}
TitleInputs == {None, <<"S">>}

FeedIdsByUrl(fs, url) == {i \in DOMAIN fs : fs[i].url = url}

\* INSERT OR IGNORE INTO feeds(url, title, category, added_at)
InsertFeedOrIgnore(D, url, title, category) ==
    IF FeedIdsByUrl(D.feeds, url) # {} THEN D
    ELSE LET id == D.feed_seq + 1
         IN  [D EXCEPT !.feed_seq = id,
                       !.feeds = [i \in DOMAIN D.feeds \cup {id} |->
                                    IF i = id
                                    THEN [url |-> url, title |-> title,
                                          category |-> category, etag |-> None,
                                          last_checked_at |-> NoTime]
                                    ELSE D.feeds[i]]]

\* UPDATE feeds SET category = COALESCE(NULLIF(?, ''), category) WHERE url = ?
UpdateCategory(fs, url, category) ==
    [i \in DOMAIN fs |->
        IF fs[i].url = url /\ category # <<>> THEN [fs[i] EXCEPT !.category = category]
        ELSE fs[i]]

\* category = (category or "default").strip() or "default"
AddFeedCategory(category) ==
    LET c == strip(IF Truthy(category) THEN category ELSE DefaultCategory)
    IN  IF c = <<>> THEN DefaultCategory ELSE c

add_feed(D, url_in, category_in, title) ==
    LET url == strip(url_in)
        category == AddFeedCategory(category_in)
    IN  IF url = <<>> THEN [raised |-> TRUE, db |-> D, id |-> 0]
        ELSE LET D1 == InsertFeedOrIgnore(D, url, title, category)
                 D2 == [D1 EXCEPT !.feeds = UpdateCategory(@, url, category)]
             IN  [raised |-> FALSE, db |-> D2,
                  id |-> CHOOSE i \in FeedIdsByUrl(D2.feeds, url) : TRUE]

\* rsscli.py add_feed(url, title).  A feeds table that has the category column
\* gives the new row the column's DEFAULT.
old_add_feed(D, url_in, title) ==
    LET url == strip(url_in)
    IN  IF url = <<>> THEN [raised |-> TRUE, db |-> D, id |-> 0]
        ELSE LET D1 == InsertFeedOrIgnore(D, url, title,
                          IF D.schema.category THEN DefaultCategory ELSE NoColumn)
             IN  [raised |-> FALSE, db |-> D1,
                  id |-> CHOOSE i \in FeedIdsByUrl(D1.feeds, url) : TRUE]

\* add_feed(url, category, title) with arguments from the given sets
AddFeedFrom(Urls, Categories, Titles) ==
    /\ pc = "idle"
    /\ store.release = "new"
    /\ \E url \in Urls, category \in Categories, title \in Titles :
          LET r == add_feed(Db, url, category, title)
          IN  /\ r.db.feed_seq <= MaxFeedRows
              /\ Write(r.db)
    /\ UNCHANGED <<now, fts5, store, run>>

OldAddFeed ==
    /\ pc = "idle"
    /\ store.release = "old"
    /\ \E url \in UrlInputs, title \in TitleInputs :
          LET r == old_add_feed(Db, url, title)
          IN  /\ r.db.feed_seq <= MaxFeedRows
              /\ Write(r.db)
    /\ UNCHANGED <<now, fts5, store, run>>

\* Faulty variant of TriggerAfterDelete: the schema has no trigger entries_ad.
TriggerAfterDeleteMissing(D, deleted) == D.entries_fts

\* trigger entries_ad: DELETE FROM entries_fts WHERE entry_id = old.id
TriggerAfterDelete(D, deleted) ==
    IF D.schema.fts
    THEN {r \in D.entries_fts : r.entry_id \notin {e.id : e \in deleted}}
    ELSE D.entries_fts

\* Faulty variant of Cascade: foreign keys are not enforced on the connection.
NoCascade(D, gone) == D

\* ON DELETE CASCADE of entries.feed_id and feed_filters.feed_id (foreign_keys = ON)
Cascade(D, gone) ==
    LET kept == {e \in D.entries : e.feed_id \notin gone}
    IN  [D EXCEPT !.entries = kept,
                  !.feed_filters = {f \in D.feed_filters : f.feed_id \notin gone},
                  !.entries_fts = TriggerAfterDelete(D, D.entries \ kept)]

\* DELETE FROM feeds WHERE id = ? / WHERE url = ?
DeleteFeedRows(D, gone) ==
    [Cascade(D, gone) EXCEPT !.feeds = [i \in DOMAIN D.feeds \ gone |-> D.feeds[i]]]

\* feed_id = 0 stands for feed_id=None.
delete_feed(D, feed_id, url) ==
    IF feed_id = 0 /\ ~Truthy(url) THEN [raised |-> TRUE, db |-> D, rowcount |-> 0]
    ELSE LET gone == IF feed_id # 0 THEN DOMAIN D.feeds \cap {feed_id}
                     ELSE FeedIdsByUrl(D.feeds, strip(url))
         IN  [raised |-> FALSE, db |-> DeleteFeedRows(D, gone),
              rowcount |-> Cardinality(gone)]

DeleteArgs ==
    {<<i, None>> : i \in 1..MaxFeedRows} \cup {<<0, u>> : u \in UrlInputs \cup {None}}

DeleteFeed ==
    /\ pc = "idle"
    /\ store.release = "new"
    /\ \E a \in DeleteArgs :
          LET r == delete_feed(Db, a[1], a[2])
          IN  /\ Write(r.db)
    /\ UNCHANGED <<now, fts5, store, run>>

\* ---------------------------------------------------------------------
\* Queries
\* ---------------------------------------------------------------------
Min(a, b) == IF a <= b THEN a ELSE b
Max(a, b) == IF a >= b THEN a ELSE b

\* COALESCE(published_at, fetched_at) or COALESCE(fetched_at, fetched_at)
OrderKey(e, use_published_at) ==
    IF use_published_at /\ e.published_at # NoTime THEN e.published_at ELSE e.fetched_at

\* ORDER BY key DESC; rows of equal key come in rowid order.
RECURSIVE OrderByDesc(_, _)
OrderByDesc(rows, use_published_at) ==
    IF rows = {} THEN <<>>
    ELSE LET first == CHOOSE x \in rows : \A y \in rows :
                          \/ OrderKey(x, use_published_at) > OrderKey(y, use_published_at)
                          \/ /\ OrderKey(x, use_published_at) = OrderKey(y, use_published_at)
                             /\ x.id <= y.id
         IN  <<first>> \o OrderByDesc(rows \ {first}, use_published_at)

\* Faulty variant of ClampLimit: the limit is passed on as given.
ClampLimitNot(limit) == limit

\* limit = max(1, min(int(limit), 500))
ClampLimit(limit) == Max(1, Min(limit, LimitMax))

\* The first n rows (SQL LIMIT n; a negative n is no limit).
Limit(rows, n) == IF n < 0 THEN rows ELSE SubSeq(rows, 1, Min(n, Len(rows)))

get_last_entries_for_feed(D, feed_id, limit_in, use_published_at) ==
    LET limit == ClampLimit(limit_in)
        rows == OrderByDesc({e \in D.entries : e.feed_id = feed_id}, use_published_at)
    IN  Limit(rows, limit)

\* datetime.now(timezone.utc).date(): the day the instant t lies in.
utc_today(t) == t \div DayLen

\* datetime(day.year, day.month, day.day, 0, 0, 0, tzinfo=utc).isoformat()
DayStart(day) == day * DayLen

\* datetime(day.year, day.month, day.day, 23, 59, 59, tzinfo=utc).isoformat()
DayEnd(day) == day * DayLen + (DayLen - 1)

\* Faulty variant of get_updates_between: the end of the window is left out.
get_updates_between_open(D, start_iso, end_iso, use_published_at) ==
    LET Col(e) == IF use_published_at THEN e.published_at ELSE e.fetched_at
    IN  OrderByDesc({e \in D.entries :
                        Col(e) # NoTime /\ start_iso <= Col(e) /\ Col(e) < end_iso},
                    TRUE)

\* WHERE col IS NOT NULL AND col BETWEEN ? AND ?
\* ORDER BY COALESCE(published_at, fetched_at) DESC
get_updates_between(D, start_iso, end_iso, use_published_at) ==
    LET Col(e) == IF use_published_at THEN e.published_at ELSE e.fetched_at
    IN  OrderByDesc({e \in D.entries :
                        Col(e) # NoTime /\ start_iso <= Col(e) /\ Col(e) <= end_iso},
                    TRUE)

get_updates_for_day(D, day, use_published_at) ==
    get_updates_between(D, DayStart(day), DayEnd(day), use_published_at)

\* Faulty variant of get_updates_last_days: the window starts `days` days back.
get_updates_last_days_off_by_one(D, t, days, use_published_at) ==
    IF days <= 0 THEN <<>>
    ELSE get_updates_between(D, DayStart(utc_today(t) - days), DayEnd(utc_today(t)),
                             use_published_at)

\* t: the instant of the call.
get_updates_last_days(D, t, days, use_published_at) ==
    IF days <= 0 THEN <<>>
    ELSE LET end_day == utc_today(t)
             start_day == end_day - (days - 1)
         IN  get_updates_between(D, DayStart(start_day), DayEnd(end_day),
                                 use_published_at)

\* ---------------------------------------------------------------------
\* Fetching
\* ---------------------------------------------------------------------
RawBlank ==
    [id |-> None, guid |-> None, link |-> None, title |-> None, published |-> None,
     published_parsed |-> NoTime, updated_parsed |-> NoTime, author |-> None,
     summary |-> None, subtitle |-> None, content |-> <<>>]

\* The raw entries the fetch collaborator may return: two versions of one item
\* (the same id up to whitespace) and an item whose published_parsed makes
\* datetime() raise.
RawEntries ==
    { [RawBlank EXCEPT !.id = <<"x">>, !.title = <<"A">>, !.published_parsed = 0],
      [RawBlank EXCEPT !.id = <<"x", " ">>, !.title = <<"B">>],
      [RawBlank EXCEPT !.id = <<"z">>, !.published_parsed = BadTime] }

EntryLists == UNION {[1..n -> RawEntries] : n \in 0..MaxEntries}
FetchEtags == {None, <<"e">>}
FetchTitles == {None, <<"T", " ">>}
FetchResults ==
    [status : {200, NotModified}, etag : FetchEtags, title : FetchTitles,
     entries : EntryLists]

RECURSIVE SortedIds(_)
SortedIds(S) ==
    IF S = {} THEN <<>>
    ELSE LET m == CHOOSE x \in S : \A y \in S : x <= y
         IN  <<m>> \o SortedIds(S \ {m})

\* Faulty variant of get_feed_rows: ORDER BY id DESC.
get_feed_rows_desc(D) ==
    LET ids == SortedIds(DOMAIN D.feeds)
        n == Len(ids)
    IN  [k \in 1..n |-> [id |-> ids[n + 1 - k], url |-> D.feeds[ids[n + 1 - k]].url,
                          etag |-> D.feeds[ids[n + 1 - k]].etag]]

\* SELECT * FROM feeds ORDER BY id
get_feed_rows(D) ==
    LET ids == SortedIds(DOMAIN D.feeds)
    IN  [k \in 1..Len(ids) |-> [id |-> ids[k], url |-> D.feeds[ids[k]].url,
                                 etag |-> D.feeds[ids[k]].etag]]

\* Faulty variant of UpdateChecked: SET etag = ? without COALESCE.
UpdateCheckedClearing(fs, feed_id, fetched_at, etag) ==
    [i \in DOMAIN fs |->
        IF i = feed_id THEN [fs[i] EXCEPT !.last_checked_at = fetched_at, !.etag = etag]
        ELSE fs[i]]

\* UPDATE feeds SET last_checked_at = ?, etag = COALESCE(?, etag) WHERE id = ?
UpdateChecked(fs, feed_id, fetched_at, etag) ==
    [i \in DOMAIN fs |->
        IF i = feed_id
        THEN [fs[i] EXCEPT !.last_checked_at = fetched_at,
                           !.etag = IF etag # None THEN etag ELSE @]
        ELSE fs[i]]

\* Faulty variant of UpdateTitle: SET title = ? without COALESCE.
UpdateTitleOverwriting(fs, feed_id, title) ==
    [i \in DOMAIN fs |-> IF i = feed_id THEN [fs[i] EXCEPT !.title = title] ELSE fs[i]]

\* UPDATE feeds SET title = COALESCE(title, ?) WHERE id = ?
UpdateTitle(fs, feed_id, title) ==
    [i \in DOMAIN fs |->
        IF i = feed_id /\ fs[i].title = None THEN [fs[i] EXCEPT !.title = title]
        ELSE fs[i]]

EntryRow(id, feed_id, entry, fetched_at) ==
    [id |-> id, feed_id |-> feed_id, guid |-> entry_guid(entry),
     title |-> normalize_text(entry.title, EntryTitleMax),
     link |-> normalize_text(entry.link, EntryLinkMax),
     author |-> normalize_text(entry.author, EntryAuthorMax),
     published_at |-> to_iso_dt(parse_entry_datetime(entry)),
     summary |-> pick_summary(entry), content |-> pick_content(entry),
     fetched_at |-> fetched_at]

\* Faulty variant of EntryExists: entries has no UNIQUE(feed_id, guid).
EntryExistsNever(es, feed_id, guid) == FALSE

\* UNIQUE(feed_id, guid): whether INSERT OR IGNORE ignores the row
EntryExists(es, feed_id, guid) == \E e \in es : e.feed_id = feed_id /\ e.guid = guid

Coalesce(v, w) == IF v # None THEN v ELSE w

\* trigger entries_ai: the index row of a new entry
TriggerAfterInsert(D, row) ==
    IF D.schema.fts
    THEN D.entries_fts \cup {[entry_id |-> row.id, feed_id |-> row.feed_id,
                              title |-> Coalesce(row.title, <<>>),
                              summary |-> Coalesce(row.summary, <<>>),
                              content |-> Coalesce(row.content, <<>>)]}
    ELSE D.entries_fts

\* Faulty variant of InsertEntryOrIgnore: INSERT OR REPLACE, the row is stored
\* again under a new id.
InsertEntryOrReplace(D, row) ==
    [D EXCEPT !.entries = {e \in @ : e.feed_id # row.feed_id \/ e.guid # row.guid}
                              \cup {row},
              !.entry_seq = row.id]

\* Faulty variant of InsertEntryOrIgnore: ON CONFLICT(feed_id, guid) DO UPDATE,
\* the stored row takes the values of the new one and keeps its id.
InsertEntryOrUpdate(D, row) ==
    IF EntryExists(D.entries, row.feed_id, row.guid)
    THEN [D EXCEPT !.entries =
             {IF e.feed_id = row.feed_id /\ e.guid = row.guid THEN [row EXCEPT !.id = e.id]
              ELSE e : e \in @}]
    ELSE [D EXCEPT !.entries = @ \cup {row},
                   !.entry_seq = row.id,
                   !.entries_fts = TriggerAfterInsert(D, row)]

\* INSERT OR IGNORE INTO entries (...) VALUES (...)
InsertEntryOrIgnore(D, row) ==
    IF EntryExists(D.entries, row.feed_id, row.guid) THEN D
    ELSE [D EXCEPT !.entries = @ \cup {row},
                   !.entry_seq = row.id,
                   !.entries_fts = TriggerAfterInsert(D, row)]

\* Faulty variant of InsertRowCount: every INSERT OR IGNORE is counted.
InsertRowCountAlwaysOne(before, after) == 1

\* cur.rowcount of INSERT OR IGNORE: 1 when the row was stored, 0 when ignored
InsertRowCount(before, after) == IF after # before THEN 1 ELSE 0

\* The loop over d.entries of _fetch_one_feed; acc.raised: an exception ended it.
RECURSIVE InsertEntries(_, _, _, _)
InsertEntries(raw, feed_id, fetched_at, acc) ==
    IF raw = <<>> \/ acc.raised THEN acc
    ELSE LET entry == Head(raw)
             seen == acc.seen + 1
         IN  IF parse_entry_datetime(entry) = BadTime
             THEN [acc EXCEPT !.raised = TRUE, !.seen = seen]
             ELSE LET row == EntryRow(acc.db.entry_seq + 1, feed_id, entry, fetched_at)
                      D1 == InsertEntryOrIgnore(acc.db, row)
                  IN  InsertEntries(Tail(raw), feed_id, fetched_at,
                        [raised |-> FALSE, db |-> D1, seen |-> seen,
                         inserted |-> acc.inserted + InsertRowCount(acc.db, D1)])

\* Faulty variant of FetchTransaction: the status is not looked at.
FetchTransactionAnyStatus(D, feed_row, d, fetched_at) ==
    LET fs1 == UpdateChecked(D.feeds, feed_row.id, fetched_at, d.etag)
        fs2 == IF Truthy(d.title)
               THEN UpdateTitle(fs1, feed_row.id, normalize_text(d.title, FeedTitleMax))
               ELSE fs1
    IN  InsertEntries(d.entries, feed_row.id, fetched_at,
                      [raised |-> FALSE, db |-> [D EXCEPT !.feeds = fs2], seen |-> 0,
                       inserted |-> 0])

\* The block of _fetch_one_feed inside `with self._conn()`, on the result d.
FetchTransaction(D, feed_row, d, fetched_at) ==
    LET fs1 == UpdateChecked(D.feeds, feed_row.id, fetched_at, d.etag)
        fs2 == IF Truthy(d.title)
               THEN UpdateTitle(fs1, feed_row.id, normalize_text(d.title, FeedTitleMax))
               ELSE fs1
        acc0 == [raised |-> FALSE, db |-> [D EXCEPT !.feeds = fs2], seen |-> 0,
                 inserted |-> 0]
    IN  IF d.status = NotModified THEN acc0
        ELSE InsertEntries(d.entries, feed_row.id, fetched_at, acc0)

\* _fetch_one_feed(feed_row) when parse returns d: the database afterwards, whether
\* it raised, and the pair (inserted, seen) it returns when it did not.
fetch_one_feed(D, feed_row, d, fetched_at) ==
    LET r == FetchTransaction(D, feed_row, d, fetched_at)
    IN  [raised |-> r.raised, db |-> Committed(r.raised, D, r.db),
         inserted |-> r.inserted, seen |-> r.seen]

ErrorItem(feed_row, msg) == [feed_id |-> feed_row.id, url |-> feed_row.url, error |-> msg]

\* Faulty variant of SummaryAfter: feeds_fetched is incremented before the pass.
SummaryAfterFetchedFirst(s, f, r) ==
    IF r.raised THEN [s EXCEPT !.feeds_fetched = @ + 1,
                               !.errors = Append(@, ErrorItem(f, "error"))]
    ELSE [s EXCEPT !.feeds_fetched = @ + 1,
                   !.entries_inserted = @ + r.inserted,
                   !.entries_seen = @ + r.seen]

\* The body of the loop of fetch_all for the feed row f.
SummaryAfter(s, f, r) ==
    IF r.raised THEN [s EXCEPT !.errors = Append(@, ErrorItem(f, "error"))]
    ELSE [s EXCEPT !.feeds_fetched = @ + 1,
                   !.entries_inserted = @ + r.inserted,
                   !.entries_seen = @ + r.seen]

\* parse raised
ParseRaised == [status |-> 0]

\* The loop of fetch_all over the feed rows, parse answering results[feed id].
RECURSIVE FetchAllLoop(_, _, _, _, _)
FetchAllLoop(D, rows, results, t, s) ==
    IF rows = <<>> THEN [db |-> D, summary |-> s]
    ELSE LET f == Head(rows)
             r == IF results[f.id] = ParseRaised THEN [raised |-> TRUE, db |-> D]
                  ELSE fetch_one_feed(D, f, results[f.id], utc_now_iso(t))
         IN  FetchAllLoop(r.db, Tail(rows), results, t, SummaryAfter(s, f, r))

\* fetch_all() as one call at the instant t: the database afterwards and the
\* summary returned.
fetch_all(D, results, t) ==
    FetchAllLoop(D, get_feed_rows(D), results, t,
                 [EmptySummary EXCEPT !.feeds_total = Len(get_feed_rows(D))])

\* fetch_all up to its loop.  The clock may have advanced since the last call;
\* it is followed up to max_now.
FetchAllBeginUpTo(max_now) ==
    /\ pc = "idle"
    /\ store.release # "none"
    /\ pc' = "fetching"
    /\ pending' = get_feed_rows(Db)
    /\ summary' = [EmptySummary EXCEPT !.feeds_total = Len(get_feed_rows(Db))]
    /\ attempted' = <<>>
    /\ last_pass' = NoPass
    /\ now' \in {t \in {now, now + 1} : t <= max_now}
    /\ UNCHANGED <<fts5, schema, feeds, feed_seq, entries, entry_seq, feed_filters,
                   filter_seq, entries_fts, store>>

FetchAllBegin == FetchAllBeginUpTo(MaxNow)

\* One iteration of the loop of fetch_all in which parse raises.
FetchOneFeedParseRaises ==
    /\ pc = "fetching"
    /\ pending # <<>>
    /\ LET f == Head(pending)
       IN  /\ summary' = SummaryAfter(summary, f, [raised |-> TRUE])
           /\ attempted' = Append(attempted, f.id)
           /\ last_pass' = [status |-> 0, raised |-> TRUE]
    /\ pending' = Tail(pending)
    /\ UNCHANGED <<now, fts5, schema, feeds, feed_seq, entries, entry_seq, feed_filters,
                   filter_seq, entries_fts, store, pc>>

\* One iteration of the loop of fetch_all in which parse returns a result d of
\* those the server at the feed's URL gives.
FetchOneFeedFrom(Served) ==
    /\ pc = "fetching"
    /\ pending # <<>>
    /\ \E d \in Served[Head(pending).url] :
          LET f == Head(pending)
              r == fetch_one_feed(Db, f, d, utc_now_iso(now))
          IN  /\ Write(r.db)
              /\ summary' = SummaryAfter(summary, f, r)
              /\ attempted' = Append(attempted, f.id)
              /\ last_pass' = [status |-> d.status, raised |-> r.raised]
    /\ pending' = Tail(pending)
    /\ UNCHANGED <<now, fts5, store, pc>>

\* return summary
FetchAllReturn ==
    /\ pc = "fetching"
    /\ pending = <<>>
    /\ pc' = "idle"
    /\ summary' = EmptySummary
    /\ attempted' = <<>>
    /\ last_pass' = NoPass
    /\ UNCHANGED <<now, fts5, schema, feeds, feed_seq, entries, entry_seq, feed_filters,
                   filter_seq, entries_fts, store, pending>>

\* ---------------------------------------------------------------------
\* Feed filters
\* ---------------------------------------------------------------------
Quote == "\""

\* str.split(sep)
RECURSIVE split(_, _)
split(s, sep) ==
    IF \A i \in 1..Len(s) : s[i] # sep THEN <<s>>
    ELSE LET k == CHOOSE i \in 1..Len(s) : s[i] = sep /\ \A j \in 1..(i - 1) : s[j] # sep
         IN  <<SubSeq(s, 1, k - 1)>> \o split(SubSeq(s, k + 1, Len(s)), sep)

\* [v.strip() for v in parts if v.strip()]
StripAll(parts) ==
    SelectSeq([i \in 1..Len(parts) |-> strip(parts[i])], LAMBDA p : p # <<>>)

\* One element of a JSON array: a string without escapes (the inputs hold no
\* other JSON values).
JsonString(item) ==
    /\ Len(item) >= 2
    /\ item[1] = Quote
    /\ item[Len(item)] = Quote
    /\ \A i \in 2..(Len(item) - 1) : item[i] \notin {Quote, "\\"}

\* json.loads(raw) of a text that starts with "[": the list, or raised
\* (JSONDecodeError).  A string element holds no comma in the inputs.
json_loads(raw) ==
    IF Len(raw) < 2 \/ raw[Len(raw)] # "]" THEN [raised |-> TRUE, value |-> <<>>]
    ELSE LET inner == strip(SubSeq(raw, 2, Len(raw) - 1))
             items == [i \in 1..Len(split(inner, ",")) |-> strip(split(inner, ",")[i])]
         IN  IF inner = <<>> THEN [raised |-> FALSE, value |-> <<>>]
             ELSE IF \E i \in 1..Len(items) : ~JsonString(items[i])
             THEN [raised |-> TRUE, value |-> <<>>]
             ELSE [raised |-> FALSE,
                   value |-> [i \in 1..Len(items) |->
                                SubSeq(items[i], 2, Len(items[i]) - 1)]]

\* json.dumps(xs) of a list of strings that need no escapes: ["a", "b"]
RECURSIVE json_dumps_items(_)
json_dumps_items(xs) ==
    IF xs = <<>> THEN <<>>
    ELSE <<Quote>> \o Head(xs) \o <<Quote>>
            \o (IF Len(xs) = 1 THEN <<>> ELSE <<",", " ">> \o json_dumps_items(Tail(xs)))

json_dumps(xs) == <<"[">> \o json_dumps_items(xs) \o <<"]">>

\* Faulty variant of parse_keywords: the items of a JSON array are taken as
\* they are.
parse_keywords_json_raw(value) ==
    LET raw == strip(IF value = None THEN <<>> ELSE value)
    IN  IF raw = <<>> THEN [raised |-> FALSE, value |-> <<>>]
        ELSE IF raw[1] = "["
        THEN LET parsed == json_loads(raw)
             IN  [raised |-> parsed.raised, value |-> parsed.value]
        ELSE [raised |-> FALSE, value |-> StripAll(split(raw, ","))]

parse_keywords(value) ==
    LET raw == strip(IF value = None THEN <<>> ELSE value)
    IN  IF raw = <<>> THEN [raised |-> FALSE, value |-> <<>>]
        ELSE IF raw[1] = "["
        THEN LET parsed == json_loads(raw)
             IN  [raised |-> parsed.raised, value |-> StripAll(parsed.value)]
        ELSE [raised |-> FALSE, value |-> StripAll(split(raw, ","))]

\* str.lower() on the letters the inputs use
LowerChar(c) ==
    CASE c = "A" -> "a" [] c = "B" -> "b" [] c = "C" -> "c" [] c = "E" -> "e"
      [] c = "I" -> "i" [] c = "L" -> "l" [] c = "M" -> "m" [] c = "N" -> "n"
      [] c = "O" -> "o" [] c = "R" -> "r" [] c = "S" -> "s" [] c = "T" -> "t"
      [] c = "U" -> "u" [] c = "Y" -> "y" [] OTHER -> c

lower(s) == [i \in 1..Len(s) |-> LowerChar(s[i])]

FieldTitle == <<"t", "i", "t", "l", "e">>
FieldSummary == <<"s", "u", "m", "m", "a", "r", "y">>
FieldContent == <<"c", "o", "n", "t", "e", "n", "t">>

\* list(dict.fromkeys(xs))
RECURSIVE Dedupe(_)
Dedupe(xs) ==
    IF xs = <<>> THEN <<>>
    ELSE LET init == SubSeq(xs, 1, Len(xs) - 1)
             last == xs[Len(xs)]
         IN  IF \E i \in 1..Len(init) : init[i] = last THEN Dedupe(init)
             ELSE Append(Dedupe(init), last)

\* Faulty variant of parse_match_fields: unknown names are dropped.
parse_match_fields_lenient(value) ==
    LET raw == strip(IF value = None THEN <<>> ELSE value)
        fields == IF raw = <<>>
                  THEN [raised |-> FALSE,
                        value |-> <<FieldTitle, FieldSummary, FieldContent>>]
                  ELSE parse_keywords(raw)
        normalized == SelectSeq([i \in 1..Len(fields.value) |-> lower(fields.value[i])],
                                LAMBDA f : f \in {FieldTitle, FieldSummary, FieldContent})
    IN  IF fields.raised THEN [raised |-> TRUE, value |-> <<>>]
        ELSE IF normalized = <<>> THEN [raised |-> TRUE, value |-> <<>>]
        ELSE [raised |-> FALSE, value |-> Dedupe(normalized)]

parse_match_fields(value) ==
    LET raw == strip(IF value = None THEN <<>> ELSE value)
        fields == IF raw = <<>>
                  THEN [raised |-> FALSE,
                        value |-> <<FieldTitle, FieldSummary, FieldContent>>]
                  ELSE parse_keywords(raw)
        normalized == [i \in 1..Len(fields.value) |-> lower(fields.value[i])]
    IN  IF fields.raised THEN [raised |-> TRUE, value |-> <<>>]
        ELSE IF \E i \in 1..Len(normalized) :
                    normalized[i] \notin {FieldTitle, FieldSummary, FieldContent}
        THEN [raised |-> TRUE, value |-> <<>>]
        ELSE IF normalized = <<>> THEN [raised |-> TRUE, value |-> <<>>]
        ELSE [raised |-> FALSE, value |-> Dedupe(normalized)]

\* A FeedFilter of a row of feed_filters
filter_from_row(row) ==
    [id |-> row.id, feed_id |-> row.feed_id, name |-> row.name,
     include_keywords |-> json_loads(row.include_keywords).value,
     exclude_keywords |-> json_loads(row.exclude_keywords).value,
     match_fields |-> json_loads(row.match_fields).value,
     is_case_sensitive |-> row.is_case_sensitive, is_enabled |-> row.is_enabled]

\* filter: the FeedFilter returned, read back from the new row.
add_feed_filter(D, feed_id, name, include_keywords, exclude_keywords, match_fields, is_case_sensitive, created_at) ==
    LET filter_name == strip(IF name = None THEN <<>> ELSE name)
        include == parse_keywords(include_keywords)
        exclude == parse_keywords(exclude_keywords)
        fields == parse_match_fields(match_fields)
        id == D.filter_seq + 1
        row == [id |-> id, feed_id |-> feed_id, name |-> filter_name,
                include_keywords |-> json_dumps(include.value),
                exclude_keywords |-> json_dumps(exclude.value),
                match_fields |-> json_dumps(fields.value),
                is_case_sensitive |-> is_case_sensitive,
                is_enabled |-> TRUE, created_at |-> created_at]
    IN  IF \/ filter_name = <<>>
           \/ include.raised \/ include.value = <<>>
           \/ exclude.raised
           \/ fields.raised
           \/ feed_id \notin DOMAIN D.feeds
           \/ \E f \in D.feed_filters : f.feed_id = feed_id /\ f.name = filter_name
        THEN [raised |-> TRUE, db |-> D, id |-> 0, filter |-> None]
        ELSE [raised |-> FALSE, id |-> id, filter |-> filter_from_row(row),
              db |-> [D EXCEPT !.filter_seq = id, !.feed_filters = @ \cup {row}]]

\* Faulty variant of deactivate_feed_filter: rowcount counts the rows whose
\* value changed, not the rows the WHERE clause matched.
deactivate_feed_filter_changed_rows(D, filter_id) ==
    [rowcount |-> Cardinality({f \in D.feed_filters : f.id = filter_id /\ f.is_enabled}),
     db |-> [D EXCEPT !.feed_filters =
                {IF f.id = filter_id THEN [f EXCEPT !.is_enabled = FALSE] ELSE f :
                    f \in D.feed_filters}]]

\* UPDATE feed_filters SET is_enabled = 0 WHERE id = ?
deactivate_feed_filter(D, filter_id) ==
    [rowcount |-> Cardinality({f \in D.feed_filters : f.id = filter_id}),
     db |-> [D EXCEPT !.feed_filters =
                {IF f.id = filter_id THEN [f EXCEPT !.is_enabled = FALSE] ELSE f :
                    f \in D.feed_filters}]]

\* Faulty variant of remove_feed_filter: the row is switched off, not deleted.
remove_feed_filter_soft(D, filter_id) ==
    [rowcount |-> Cardinality({f \in D.feed_filters : f.id = filter_id}),
     db |-> [D EXCEPT !.feed_filters =
                {IF f.id = filter_id THEN [f EXCEPT !.is_enabled = FALSE] ELSE f :
                    f \in D.feed_filters}]]

\* DELETE FROM feed_filters WHERE id = ?
remove_feed_filter(D, filter_id) ==
    [rowcount |-> Cardinality({f \in D.feed_filters : f.id = filter_id}),
     db |-> [D EXCEPT !.feed_filters = {f \in D.feed_filters : f.id # filter_id}]]

\* add_feed_filter(...) with arguments from the given sets
AddFeedFilterFrom(Names, Includes, Excludes, Fields, Cases) ==
    /\ pc = "idle"
    /\ store.release = "new"
    /\ \E feed_id \in 1..MaxFeedRows, name \in Names, include \in Includes,
          exclude \in Excludes, fields \in Fields, case \in Cases :
          LET r == add_feed_filter(Db, feed_id, name, include, exclude, fields, case, utc_now_iso(now))
          IN  /\ r.db.filter_seq <= MaxFilterRows
              /\ Write(r.db)
    /\ UNCHANGED <<now, fts5, store, run>>

DeactivateFeedFilter ==
    /\ pc = "idle"
    /\ store.release = "new"
    /\ \E filter_id \in 1..MaxFilterRows :
          LET r == deactivate_feed_filter(Db, filter_id)
          IN  /\ Write(r.db)
    /\ UNCHANGED <<now, fts5, store, run>>

RemoveFeedFilter ==
    /\ pc = "idle"
    /\ store.release = "new"
    /\ \E filter_id \in 1..MaxFilterRows :
          LET r == remove_feed_filter(Db, filter_id)
          IN  /\ Write(r.db)
    /\ UNCHANGED <<now, fts5, store, run>>

\* ---------------------------------------------------------------------
\* Filtered listing
\* ---------------------------------------------------------------------
\* ORDER BY feed_id, id
RECURSIVE OrderFilters(_)
OrderFilters(rows) ==
    IF rows = {} THEN <<>>
    ELSE LET first == CHOOSE x \in rows : \A y \in rows :
                          \/ x.feed_id < y.feed_id
                          \/ x.feed_id = y.feed_id /\ x.id <= y.id
         IN  <<first>> \o OrderFilters(rows \ {first})

\* feed_id = 0 stands for feed_id=None.
list_feed_filters(D, feed_id, only_enabled) ==
    LET rows == OrderFilters({f \in D.feed_filters :
                                /\ feed_id # 0 => f.feed_id = feed_id
                                /\ only_enabled => f.is_enabled})
    IN  [k \in 1..Len(rows) |-> filter_from_row(rows[k])]

\* keyword in haystack
Contains(haystack, keyword) ==
    \E i \in 0..(Len(haystack) - Len(keyword)) :
        SubSeq(haystack, i + 1, i + Len(keyword)) = keyword

\* sep.join(chunks)
RECURSIVE Join(_, _)
Join(chunks, sep) ==
    IF chunks = <<>> THEN <<>>
    ELSE IF Len(chunks) = 1 THEN chunks[1]
    ELSE chunks[1] \o sep \o Join(Tail(chunks), sep)

\* getattr(entry, field, None)
FieldValue(entry, field) ==
    IF field = FieldTitle THEN entry.title
    ELSE IF field = FieldSummary THEN entry.summary
    ELSE IF field = FieldContent THEN entry.content
    ELSE None

\* The haystack of _entry_matches_filter: the non-empty values of the match
\* fields, in the order of the match fields, joined by sep.
Haystack(entry, match_fields, sep) ==
    Join(SelectSeq([i \in 1..Len(match_fields) |-> FieldValue(entry, match_fields[i])],
                   Truthy),
         sep)

\* Faulty variant of entry_matches_filter: one include keyword is enough.
entry_matches_filter_any_include(entry, flt) ==
    LET Fold(t) == IF flt.is_case_sensitive THEN t ELSE lower(t)
        haystack == Fold(Haystack(entry, flt.match_fields, <<"\n">>))
    IN  /\ \E i \in 1..Len(flt.include_keywords) :
              Contains(haystack, Fold(flt.include_keywords[i]))
        /\ ~\E i \in 1..Len(flt.exclude_keywords) :
              Contains(haystack, Fold(flt.exclude_keywords[i]))

entry_matches_filter(entry, flt) ==
    LET haystack0 == Haystack(entry, flt.match_fields, <<"\n">>)
        haystack == IF flt.is_case_sensitive THEN haystack0 ELSE lower(haystack0)
        include == IF flt.is_case_sensitive THEN flt.include_keywords
                   ELSE [i \in 1..Len(flt.include_keywords) |->
                            lower(flt.include_keywords[i])]
        exclude == IF flt.is_case_sensitive THEN flt.exclude_keywords
                   ELSE [i \in 1..Len(flt.exclude_keywords) |->
                            lower(flt.exclude_keywords[i])]
        includes_match == \A i \in 1..Len(include) : Contains(haystack, include[i])
        excludes_match == \E i \in 1..Len(exclude) : Contains(haystack, exclude[i])
    IN  includes_match /\ ~excludes_match

entry_matches_any_filter(entry, filters) ==
    \E i \in 1..Len(filters) : entry_matches_filter(entry, filters[i])

\* Faulty variant of get_filtered_entries_for_feed: the filters are applied to
\* all entries of the feed and the limit to what they leave.
get_filtered_entries_for_feed_filter_first(D, feed_id, limit, use_published_at) ==
    LET es == OrderByDesc({e \in D.entries : e.feed_id = feed_id}, use_published_at)
        filters == list_feed_filters(D, feed_id, TRUE)
    IN  Limit(IF filters = <<>> THEN es
              ELSE SelectSeq(es, LAMBDA entry : entry_matches_any_filter(entry, filters)),
              ClampLimit(limit))

\* Faulty variant of get_filtered_entries_for_feed: disabled filters are read too.
get_filtered_entries_for_feed_all_filters(D, feed_id, limit, use_published_at) ==
    LET es == get_last_entries_for_feed(D, feed_id, limit, use_published_at)
        filters == list_feed_filters(D, feed_id, FALSE)
    IN  IF filters = <<>> THEN es
        ELSE SelectSeq(es, LAMBDA entry : entry_matches_any_filter(entry, filters))

get_filtered_entries_for_feed(D, feed_id, limit, use_published_at) ==
    LET es == get_last_entries_for_feed(D, feed_id, limit, use_published_at)
        filters == list_feed_filters(D, feed_id, TRUE)
    IN  IF filters = <<>> THEN es
        ELSE SelectSeq(es, LAMBDA entry : entry_matches_any_filter(entry, filters))

\* ---------------------------------------------------------------------
\* Search
\* ---------------------------------------------------------------------
\* SQLite's LIKE: % is any text, _ is any one character, and letters compare
\* without regard to case.
RECURSIVE LikeMatch(_, _)
LikeMatch(pattern, text) ==
    IF pattern = <<>> THEN text = <<>>
    ELSE IF Head(pattern) = "%"
    THEN \E k \in 0..Len(text) : LikeMatch(Tail(pattern), SubSeq(text, k + 1, Len(text)))
    ELSE IF text = <<>> THEN FALSE
    ELSE /\ Head(pattern) = "_" \/ LowerChar(Head(pattern)) = LowerChar(Head(text))
         /\ LikeMatch(Tail(pattern), Tail(text))

\* column LIKE ?: NULL LIKE ? is not true.
Like(v, pattern) == v # None /\ LikeMatch(pattern, v)

\* Faulty variant of search_like: content is scanned too.
search_like_content(D, q, limit, category) ==
    LET like == <<"%">> \o q \o <<"%">>
        rows == {e \in D.entries :
                    /\ e.feed_id \in DOMAIN D.feeds
                    /\ Like(e.title, like) \/ Like(e.summary, like) \/ Like(e.content, like)
                    /\ Truthy(category) => D.feeds[e.feed_id].category = category}
    IN  Limit(OrderByDesc(rows, TRUE), limit)

\* _search_like(q, limit, category)
search_like(D, q, limit, category) ==
    LET like == <<"%">> \o q \o <<"%">>
        rows == {e \in D.entries :
                    /\ e.feed_id \in DOMAIN D.feeds
                    /\ Like(e.title, like) \/ Like(e.summary, like)
                    /\ Truthy(category) => D.feeds[e.feed_id].category = category}
    IN  Limit(OrderByDesc(rows, TRUE), limit)

\* The tokens of a text made of letters and spaces (tokenizer unicode61: the
\* words, in lower case).
Tokens(text) == StripAll(split(lower(text), " "))

Range(f) == {f[i] : i \in DOMAIN f}

\* Whether the FTS5 query parser takes the text as a list of barewords: a
\* character that is neither a letter nor a space is a syntax error (among the
\* inputs this is "%").  Queries with the operators AND, OR, NOT, NEAR, with
\* quotes, columns or prefixes are not among the inputs.
FtsBarewords(q) == \A i \in 1..Len(q) : q[i] \notin {"%", Quote}

\* entries_fts MATCH ?: every word of the query is a word of the row.
FtsMatch(r, q) ==
    Range(Tokens(q)) \subseteq
        Range(Tokens(r.title)) \cup Range(Tokens(r.summary)) \cup Range(Tokens(r.content))

\* bm25(entries_fts), smaller is better.  All matching rows hold every word of
\* the query; the rank modelled is the one BM25 gives rows with the same word
\* counts: the shorter row first.
Bm25(r) == Len(Tokens(r.title)) + Len(Tokens(r.summary)) + Len(Tokens(r.content))

\* ORDER BY bm25(entries_fts) ASC, COALESCE(e.published_at, e.fetched_at) DESC
\* over the joined rows <<index row, entry>>.
RECURSIVE OrderByRank(_)
OrderByRank(joined) ==
    IF joined = {} THEN <<>>
    ELSE LET first == CHOOSE x \in joined : \A y \in joined :
                          \/ Bm25(x[1]) < Bm25(y[1])
                          \/ /\ Bm25(x[1]) = Bm25(y[1])
                             /\ OrderKey(x[2], TRUE) > OrderKey(y[2], TRUE)
                          \/ /\ Bm25(x[1]) = Bm25(y[1])
                             /\ OrderKey(x[2], TRUE) = OrderKey(y[2], TRUE)
                             /\ x[2].id <= y[2].id
         IN  <<first[2]>> \o OrderByRank(joined \ {first})

\* _search_fts(q, limit, category); raised: sqlite3.OperationalError.
search_fts(D, q, limit, category) ==
    IF ~FtsBarewords(q) THEN [raised |-> TRUE, rows |-> <<>>]
    ELSE LET joined == {<<r, e>> \in D.entries_fts \X D.entries :
                           /\ e.id = r.entry_id
                           /\ e.feed_id \in DOMAIN D.feeds
                           /\ FtsMatch(r, q)
                           /\ Truthy(category) => D.feeds[e.feed_id].category = category}
         IN  [raised |-> FALSE, rows |-> Limit(OrderByRank(joined), limit)]

\* Faulty variant of search: the index is queried whether or not it exists.
search_fts_only(D, fts_enabled, query, limit_in, category) ==
    LET q == strip(IF query = None THEN <<>> ELSE query)
    IN  IF q = <<>> THEN [raised |-> FALSE, rows |-> <<>>]
        ELSE IF D.schema.fts THEN search_fts(D, q, ClampLimit(limit_in), category)
        ELSE [raised |-> TRUE, rows |-> <<>>]

\* search(query, limit, category); fts_enabled: self._fts_enabled.
search(D, fts_enabled, query, limit_in, category) ==
    LET q == strip(IF query = None THEN <<>> ELSE query)
        limit == ClampLimit(limit_in)
    IN  IF q = <<>> THEN [raised |-> FALSE, rows |-> <<>>]
        ELSE IF fts_enabled THEN search_fts(D, q, limit, category)
        ELSE [raised |-> FALSE, rows |-> search_like(D, q, limit, category)]

\* ---------------------------------------------------------------------
\* Specifications
\* ---------------------------------------------------------------------
\* Ingestion: feeds registered with the default category, every fetch result.
Urls == {strip(u) : u \in UrlInputs} \ {<<>>}
\* The server at "a" may give any result; the one at "b" sends no ETag and no
\* feed title, and at most one entry.
PlainResults ==
    {d \in FetchResults : d.status = 200 /\ d.etag = None /\ d.title = None
                            /\ Len(d.entries) <= 1}
Served == [u \in Urls |-> IF u = <<"a">> THEN FetchResults ELSE PlainResults]

\* The feed at "a" is registered with or without a title, the one at "b" without.
AddFeed ==
    \/ AddFeedFrom({<<"a">>}, {<<>>}, TitleInputs)
    \/ AddFeedFrom({<<"b">>}, {<<>>}, {None})
FetchOneFeed == FetchOneFeedFrom(Served)

Next ==
    \/ Open
    \/ AddFeed
    \/ DeleteFeed
    \/ FetchAllBegin
    \/ FetchOneFeedParseRaises
    \/ FetchOneFeed
    \/ FetchAllReturn

Spec == Init /\ [][Next]_vars

\* The registry: both releases and every add_feed argument; the servers answer
\* 200 without ETag and feed title, with at most one well-formed entry.
ServedShort ==
    [u \in Urls |->
        {d \in PlainResults :
            \A i \in 1..Len(d.entries) : parse_entry_datetime(d.entries[i]) = 0}]

NextFeeds ==
    \/ OldOpen
    \/ Open
    \/ OldAddFeed
    \/ AddFeedFrom(UrlInputs, CategoryInputs, TitleInputs)
    \/ DeleteFeed
    \/ FetchAllBegin
    \/ FetchOneFeedParseRaises
    \/ FetchOneFeedFrom(ServedShort)
    \/ FetchAllReturn

SpecFeeds == Init /\ [][NextFeeds]_vars

\* Filters: feeds registered with default arguments, filters added, switched
\* off and removed; the server at "a" may repeat an item.
FilterNames == {<<" ">>, <<"f", " ">>}
IncludeInputs == {<<>>, <<"A">>}
ServedWellFormed ==
    [u \in Urls |->
        {d \in Served[u] :
            /\ d.status = 200 /\ d.etag = None /\ d.title = None
            /\ \A i \in 1..Len(d.entries) : parse_entry_datetime(d.entries[i]) # BadTime}]

NextFilters ==
    \/ Open
    \/ AddFeedFrom(Urls, {<<>>}, {None})
    \/ DeleteFeed
    \/ AddFeedFilterFrom(FilterNames, IncludeInputs, {<<>>}, {<<>>}, {FALSE})
    \/ DeactivateFeedFilter
    \/ RemoveFeedFilter
    \/ FetchAllBegin
    \/ FetchOneFeedFrom(ServedWellFormed)
    \/ FetchAllReturn

SpecFilters == Init /\ [][NextFilters]_vars

\* Queries: the program is started on the last second of the third day; feeds
\* with and without a category of their own, and items with texts in different fields, published on the last second of the
\* first day, the first second of the second day, or without a date.
ClockLate == 3 * DayLen - 1
MaxClock == ClockLate + 1

QueryEntries ==
    { [RawBlank EXCEPT !.id = <<"x">>, !.title = <<"A">>, !.summary = <<"B">>,
                       !.published_parsed = DayLen - 1],
      [RawBlank EXCEPT !.id = <<"y">>, !.title = <<"B">>, !.content = << <<"A">> >>,
                       !.published_parsed = DayLen],
      [RawBlank EXCEPT !.id = <<"z">>, !.summary = <<"a", " ", "b">>] }

ServedQueries ==
    [u \in Urls |->
        [status : {200}, etag : {None}, title : {None},
         entries : IF u = <<"a">>
                   THEN UNION {[1..n -> QueryEntries] : n \in 0..MaxEntries}
                   ELSE {<<>>} \cup {<<e>> : e \in {r \in QueryEntries : r.id = <<"x">>}}]]

InitQueries == InitAt(ClockLate)

NextQueries ==
    \/ Open
    \/ AddFeedFrom(Urls, {<<>>, <<"v">>}, {None})
    \/ DeleteFeed
    \/ FetchAllBeginUpTo(MaxClock)
    \/ FetchOneFeedFrom(ServedQueries)
    \/ FetchAllReturn

SpecQueries == InitQueries /\ [][NextQueries]_vars

\* Items: one feed, the clock standing still; items with and without an id, a
\* guid and a link, with blank values, with values in surrounding whitespace,
\* and one whose title is longer than the column's limit, with a space as the
\* last character that is kept.
LongTitle == [i \in 1..(EntryTitleMax + 1) |-> IF i = EntryTitleMax THEN " " ELSE "a"]

ItemEntries ==
    { [RawBlank EXCEPT !.id = <<"x", " ">>, !.guid = <<"g">>, !.link = <<"l">>,
                       !.title = <<" ", "A", " ">>, !.author = <<"u", " ">>],
      [RawBlank EXCEPT !.id = <<" ">>, !.guid = <<"g">>, !.link = <<>>],
      [RawBlank EXCEPT !.guid = <<"g", " ">>, !.link = <<"l">>, !.title = <<>>],
      [RawBlank EXCEPT !.link = <<" ", "l">>, !.title = <<" ">>, !.author = <<" ">>],
      [RawBlank EXCEPT !.title = <<"A">>, !.published = <<"p", " ">>],
      [RawBlank EXCEPT !.id = <<"t">>, !.title = LongTitle] }

ServedItems ==
    [u \in Urls |->
        [status : {200}, etag : {None}, title : {None},
         entries : UNION {[1..n -> ItemEntries] : n \in 0..MaxEntries}]]

NextItems ==
    \/ Open
    \/ AddFeedFrom({<<"a">>}, {<<>>}, {None})
    \/ FetchAllBeginUpTo(0)
    \/ FetchOneFeedFrom(ServedItems)
    \/ FetchAllReturn

SpecItems == Init /\ [][NextItems]_vars

\* Filtered listing: the same items, the clock standing still; a filter f for
\* the word a in titles and a filter g for the word b in all fields.
AddFeedFilter ==
    \/ AddFeedFilterFrom({<<"f">>}, {<<"a">>}, {<<>>}, {FieldTitle}, {FALSE})
    \/ AddFeedFilterFrom({<<"g">>}, {<<"b">>}, {<<>>}, {<<>>}, {FALSE})

NextListing ==
    \/ Open
    \/ AddFeedFrom(Urls, {<<>>}, {None})
    \/ AddFeedFilter
    \/ DeactivateFeedFilter
    \/ RemoveFeedFilter
    \/ FetchAllBeginUpTo(0)
    \/ FetchOneFeedFrom(ServedQueries)
    \/ FetchAllReturn

SpecListing == Init /\ [][NextListing]_vars

\* ---------------------------------------------------------------------
\* Properties
\* ---------------------------------------------------------------------
\* fetch_all is about to process the feed row Head(pending).
InPass == pc = "fetching" /\ pending # <<>>

\* The store is open under the later release and no call is running.
Idle == pc = "idle" /\ store.release = "new"

LastAttempted == attempted[Len(attempted)]

Ids(rows) == [k \in 1..Len(rows) |-> rows[k].id]

Increasing(ids) == \A j, k \in 1..Len(ids) : j < k => ids[j] < ids[k]

EntriesOf(D, i) == {e \in D.entries : e.feed_id = i}

FiltersOf(D, i) == {f \in D.feed_filters : f.feed_id = i}

Guids(raw) == {entry_guid(raw[k]) : k \in 1..Len(raw)}

\* The feed row a later fetch_all reads for the feed of the row f.
FeedRowAgain(D, f) == [id |-> f.id, url |-> f.url, etag |-> D.feeds[f.id].etag]

\* C1 (SpecFilters): in every reachable state no two stored entries have the
\* same (feed_id, guid) pair.
EntryKeyUnique ==
    \A e1, e2 \in entries : (e1.feed_id = e2.feed_id /\ e1.guid = e2.guid) => e1 = e2

\* C1, the case: an item was offered again and ignored, the same guid is stored
\* once under each of two feeds, and a filter exists.
SameGuidUnderTwoFeeds ==
    /\ pc = "fetching"
    /\ summary.entries_seen > summary.entries_inserted
    /\ feed_filters # {}
    /\ \E e1, e2 \in entries : e1.feed_id # e2.feed_id /\ e1.guid = e2.guid

\* C2 (Spec): a pass that returns d (status 200) and completes counts every
\* returned entry as seen; a pass for the same feed that returns the same
\* entries again, then or at any later time at which these entries are still
\* stored, inserts no entry, leaves the entries table as it is and again counts
\* every returned entry as seen.
FetchTwiceIdempotent ==
    InPass =>
        \A d \in FetchResults :
            LET f == Head(pending)
                r1 == fetch_one_feed(Db, f, d, utc_now_iso(now))
            IN  (d.status = 200 /\ ~r1.raised) =>
                    /\ r1.seen = Len(d.entries)
                    /\ Guids(d.entries) \subseteq {e.guid : e \in EntriesOf(r1.db, f.id)}
                    /\ \A d2 \in {x \in FetchResults :
                                      x.status = 200 /\ x.entries = d.entries},
                          t2 \in {now, now + 1} :
                          LET r2 == fetch_one_feed(r1.db, FeedRowAgain(r1.db, f), d2,
                                                   utc_now_iso(t2))
                              s2 == SummaryAfter(EmptySummary, f, r2)
                          IN  /\ ~r2.raised
                              /\ r2.inserted = 0
                              /\ r2.db.entries = r1.db.entries
                              /\ r2.seen = Len(d.entries)
                              /\ s2.entries_inserted = 0
                              /\ s2.entries_seen = Len(d.entries)
                    /\ Guids(d.entries) \subseteq {e.guid : e \in EntriesOf(Db, f.id)} =>
                          r1.inserted = 0 /\ r1.db.entries = entries

\* C2, the case: in a later run, a pass saw two entries and inserted none,
\* because an earlier run had stored the item.
SecondRunSeesAll ==
    /\ pc = "fetching"
    /\ Len(attempted) = 1
    /\ last_pass = [status |-> 200, raised |-> FALSE]
    /\ summary.entries_seen = MaxEntries
    /\ summary.entries_inserted = 0
    /\ \E e \in entries : e.feed_id = attempted[1] /\ e.fetched_at < now

\* C3 (Spec): while fetch_all runs, the feeds attempted so far followed by
\* those still to come are all the registered feeds, each once, in ascending id
\* order; each attempt so far either counted in feeds_fetched or left one item
\* {feed_id, url, error} in errors; a failing pass adds exactly that item and the
\* loop goes on; once no feed is left, fetch_all returns the summary.
EveryFeedAttemptedOnce ==
    pc = "fetching" =>
        LET order == attempted \o Ids(pending)
            errors == summary.errors
        IN  /\ Increasing(order)
            /\ {order[k] : k \in 1..Len(order)} = DOMAIN feeds
            /\ summary.feeds_total = Cardinality(DOMAIN feeds)
            /\ summary.feeds_fetched + Len(errors) = Len(attempted)
            /\ Increasing(Ids([k \in 1..Len(errors) |-> [id |-> errors[k].feed_id]]))
            /\ \A k \in 1..Len(errors) :
                  /\ DOMAIN errors[k] = {"feed_id", "url", "error"}
                  /\ \E j \in 1..Len(attempted) : attempted[j] = errors[k].feed_id
                  /\ errors[k].url = feeds[errors[k].feed_id].url
            /\ pending = <<>> => ENABLED FetchAllReturn
            /\ pending # <<>> =>
                  /\ ENABLED FetchOneFeedParseRaises
                  /\ ENABLED FetchOneFeed
                  /\ \A d \in FetchResults :
                        LET f == Head(pending)
                            r == fetch_one_feed(Db, f, d, utc_now_iso(now))
                            after == SummaryAfter(summary, f, r)
                        IN  /\ r.raised =>
                                  /\ Len(after.errors) = Len(errors) + 1
                                  /\ after.errors[Len(after.errors)].feed_id = f.id
                                  /\ after.errors[Len(after.errors)].url = f.url
                                  /\ SubSeq(after.errors, 1, Len(errors)) = errors
                            /\ ~r.raised => after.errors = errors

\* C3, the case: the first feed failed, the second was fetched all the same, and
\* the run is about to return its summary.
FailureDoesNotStopTheRun ==
    /\ pc = "fetching"
    /\ pending = <<>>
    /\ Len(attempted) = MaxFeedRows
    /\ Len(summary.errors) = 1
    /\ summary.errors[1].feed_id = attempted[1]
    /\ summary.feeds_fetched = MaxFeedRows - 1
    /\ last_pass = [status |-> 200, raised |-> FALSE]

\* C4 (SpecFeeds), as the specification states it: add_feed leaves exactly one
\* row with the trimmed URL, keeps the id of an existing row, and the row's
\* category is the supplied category when that is non-empty and unchanged when
\* it is empty.  add_feed replaces an empty category by 'default' before the
\* UPDATE, so this is violated.
AddFeedKeepsCategoryOnEmpty ==
    Idle =>
        \A url \in UrlInputs, category \in CategoryInputs, title \in TitleInputs :
            LET r == add_feed(Db, url, category, title)
                old == FeedIdsByUrl(feeds, strip(url))
                new == FeedIdsByUrl(r.db.feeds, strip(url))
            IN  ~r.raised =>
                    /\ Cardinality(new) = 1
                    /\ new = {r.id}
                    /\ old # {} => new = old
                    /\ r.db.feeds[r.id].category =
                          IF strip(category) # <<>> THEN strip(category)
                          ELSE IF old # {} THEN feeds[r.id].category
                          ELSE DefaultCategory

\* C5 (SpecFilters): delete_feed by id or by URL removes the feed, its entries
\* and its filters, get_last_entries_for_feed for its id is then empty, and the
\* rows, entries and filters of every other feed are as before.
DeleteFeedCascades ==
    Idle =>
        \A a \in DeleteArgs :
            LET r == delete_feed(Db, a[1], a[2])
                target == IF a[1] # 0 THEN DOMAIN feeds \cap {a[1]}
                          ELSE FeedIdsByUrl(feeds, strip(a[2]))
            IN  ~r.raised =>
                    /\ DOMAIN r.db.feeds = DOMAIN feeds \ target
                    /\ r.rowcount = Cardinality(target)
                    /\ \A i \in target :
                          /\ EntriesOf(r.db, i) = {}
                          /\ FiltersOf(r.db, i) = {}
                          /\ \A limit \in {0, 1, LimitMax}, use_published_at \in BOOLEAN :
                                get_last_entries_for_feed(r.db, i, limit, use_published_at)
                                    = <<>>
                    /\ \A i \in DOMAIN feeds \ target :
                          /\ r.db.feeds[i] = feeds[i]
                          /\ EntriesOf(r.db, i) = EntriesOf(Db, i)
                          /\ FiltersOf(r.db, i) = FiltersOf(Db, i)

\* C5, the case: of two feeds that each had an entry and a filter one was
\* deleted; the other is left with its entry and its filter.
FeedDeletedOtherKept ==
    /\ Idle
    /\ feed_seq = 2
    /\ entry_seq = 2
    /\ filter_seq = 2
    /\ Cardinality(DOMAIN feeds) = 1
    /\ \A i \in DOMAIN feeds :
          Cardinality(EntriesOf(Db, i)) = 1 /\ Cardinality(FiltersOf(Db, i)) = 1
    /\ \A e \in entries : e.feed_id \in DOMAIN feeds
    /\ \A f \in feed_filters : f.feed_id \in DOMAIN feeds

\* No step changes a title that is set.
TitleKept ==
    \A i \in DOMAIN feeds \cap DOMAIN feeds' :
        feeds[i].title # None => feeds'[i].title = feeds[i].title

\* What one pass and one add_feed do to titles, whatever the fetch result and the
\* arguments: a title that is set stays, add_feed changes the title of no
\* existing feed, and a null title becomes the normalized title the result
\* carries when Committing is TRUE or the pass does not raise.
TitleWrittenOnce(Committing) ==
    /\ InPass =>
          \A d \in FetchResults :
              LET f == Head(pending)
                  r == fetch_one_feed(Db, f, d, utc_now_iso(now))
                  before == feeds[f.id].title
                  after == r.db.feeds[f.id].title
              IN  /\ before # None => after = before
                  /\ (before = None /\ Truthy(d.title) /\ (Committing \/ ~r.raised)) =>
                        after = normalize_text(d.title, FeedTitleMax)
                  /\ (before = None /\ ~Truthy(d.title)) => after = None
    /\ Idle =>
          \A url \in UrlInputs, category \in CategoryInputs, title \in TitleInputs :
              \A i \in DOMAIN feeds :
                  add_feed(Db, url, category, title).db.feeds[i].title = feeds[i].title

\* C6 (Spec), amended: a title that is set never changes, by no step, no fetch
\* result and no add_feed; a feed whose title is null receives the normalized
\* title of the first fetch result that carries one in a pass that completes; a
\* pass that raises leaves the title null.
FeedTitleFirstWriteWins ==
    /\ [][TitleKept]_vars
    /\ [](TitleWrittenOnce(FALSE))
    /\ [](InPass =>
            \A d \in FetchResults :
                LET f == Head(pending)
                    r == fetch_one_feed(Db, f, d, utc_now_iso(now))
                IN  r.raised => r.db.feeds[f.id].title = feeds[f.id].title)

\* C6 as the specification states it: a null title receives the normalized title
\* of the first fetch result that carries one, whether or not the pass completes.
FeedTitleFromFirstResult == TitleWrittenOnce(TRUE)

\* C6, the case: a pass that completed has given the feed the title its result
\* carried, normalized.
TitleSetByFetch ==
    /\ pc = "fetching"
    /\ attempted # <<>>
    /\ last_pass = [status |-> 200, raised |-> FALSE]
    /\ feeds[LastAttempted].title = <<"T">>
    /\ feeds[LastAttempted].last_checked_at = now
    /\ now = MaxNow

\* What one pass does to last_checked_at and etag, whatever the fetch result: the
\* time of the pass is recorded and the returned ETag replaces the stored one
\* when there is one, in every pass if Always is TRUE, else in the passes that do
\* not raise.
CheckedRecorded(Always) ==
    InPass =>
        \A d \in FetchResults :
            LET f == Head(pending)
                r == fetch_one_feed(Db, f, d, utc_now_iso(now))
            IN  (Always \/ ~r.raised) =>
                    /\ r.db.feeds[f.id].last_checked_at = utc_now_iso(now)
                    /\ r.db.feeds[f.id].etag =
                          IF d.etag # None THEN d.etag ELSE feeds[f.id].etag

\* C7 (Spec), amended: every pass that gets a fetch result and completes, a 304
\* included, sets last_checked_at to the time of the pass and etag to the returned
\* ETag when there is one, else keeps the stored ETag; a pass that raises while it
\* processes the entries leaves both as they were.
CheckedRecordedWhenCompleted ==
    /\ CheckedRecorded(FALSE)
    /\ InPass =>
          \A d \in FetchResults :
              LET f == Head(pending)
                  r == fetch_one_feed(Db, f, d, utc_now_iso(now))
              IN  r.raised => r.db.feeds[f.id] = feeds[f.id]

\* C7 as the specification states it: also a pass that raises while it processes
\* the entries has recorded the time and the ETag.
CheckedRecordedAlways == CheckedRecorded(TRUE)

\* C7, the case: a 304 pass recorded the time and kept or set the ETag.
NotModifiedPassRecorded ==
    /\ pc = "fetching"
    /\ attempted # <<>>
    /\ last_pass = [status |-> NotModified, raised |-> FALSE]
    /\ now = MaxNow
    /\ feeds[LastAttempted].last_checked_at = now
    /\ feeds[LastAttempted].etag = <<"e">>

\* C8 (Spec): a pass whose result has status 304 does not raise, inserts nothing,
\* returns (0, 0), and fetch_all adds one to feeds_fetched and nothing to
\* entries_inserted, entries_seen and errors.
NotModifiedIsSuccess ==
    InPass =>
        \A d \in FetchResults :
            LET f == Head(pending)
                r == fetch_one_feed(Db, f, d, utc_now_iso(now))
            IN  d.status = NotModified =>
                    /\ ~r.raised
                    /\ r.inserted = 0
                    /\ r.seen = 0
                    /\ r.db.entries = entries
                    /\ r.db.entry_seq = entry_seq
                    /\ r.db.entries_fts = entries_fts
                    /\ SummaryAfter(summary, f, r) =
                          [summary EXCEPT !.feeds_fetched = @ + 1]

\* C8, the case: the only pass of the run so far met a 304 and was counted as
\* fetched, with nothing seen and no error.
NotModifiedPassCounted ==
    /\ pc = "fetching"
    /\ Len(attempted) = 1
    /\ last_pass.status = NotModified
    /\ summary.feeds_fetched = 1
    /\ summary.entries_seen = 0
    /\ summary.entries_inserted = 0
    /\ summary.errors = <<>>

\* C9 (Spec): a pass that raises while it processes the entries leaves the whole
\* database as it was before the pass: none of its writes, and every write the
\* earlier passes of the run committed.
PassIsAtomic ==
    InPass =>
        \A d \in FetchResults :
            LET f == Head(pending)
                r == fetch_one_feed(Db, f, d, utc_now_iso(now))
                tx == FetchTransaction(Db, f, d, utc_now_iso(now))
            IN  /\ r.raised = tx.raised
                /\ r.raised => r.db = Db
                /\ ~r.raised => r.db = tx.db

\* C9, the case: the first pass of the run committed an entry, the second raised
\* while it processed its entries, and the store holds the first pass's entry
\* and nothing of the second pass.
FailedPassLeftNothing ==
    /\ pc = "fetching"
    /\ Len(attempted) = 2
    /\ last_pass = [status |-> 200, raised |-> TRUE]
    /\ now = MaxNow
    /\ summary.entries_inserted = 1
    /\ Len(summary.errors) = 1
    /\ {e.feed_id : e \in entries} = {attempted[1]}
    /\ \A e \in entries : e.fetched_at = now
    /\ feeds[attempted[1]].last_checked_at = now
    /\ feeds[attempted[2]].last_checked_at # now

MirrorRow(e) ==
    [entry_id |-> e.id, feed_id |-> e.feed_id, title |-> Coalesce(e.title, <<>>),
     summary |-> Coalesce(e.summary, <<>>), content |-> Coalesce(e.content, <<>>)]

\* Every index row is the row of a stored entry.
IndexRowsSound ==
    schema.fts => \A r \in entries_fts : \E e \in entries : r = MirrorRow(e)

\* A step taken while the index exists indexes the entries it stores and leaves
\* the rows of the entries it keeps as they are.
StepMirrored ==
    (schema.fts /\ schema.fts') =>
        /\ \A e \in entries' \ entries : MirrorRow(e) \in entries_fts'
        /\ \A e \in entries' \cap entries :
              MirrorRow(e) \in entries_fts' <=> MirrorRow(e) \in entries_fts

\* C11 (SpecFeeds), the part that holds: while the index exists, every index row is the row
\* of a stored entry and carries its title, summary and content (none is left
\* behind by a cascading feed deletion), and every entry stored while the index
\* exists has its index row; an entry stored before the index was created has
\* none.
IndexMirrorsEntriesStoredSince ==
    /\ [][StepMirrored]_vars
    /\ []IndexRowsSound

IndexedEntryLeft ==
    /\ schema.fts
    /\ feed_seq = 2
    /\ Cardinality(DOMAIN feeds) = 1
    /\ entry_seq = 2
    /\ Cardinality(entries) = 1
    /\ entries_fts = {MirrorRow(e) : e \in entries}

\* Arguments of the queries.
SearchQueries ==
    {<<" ">>, <<"a">>, <<"B", " ">>, <<"a", " ", "b">>, <<"%">>, <<"_">>, <<"v">>}
SearchLimits == {0 - 1, 0, 1, 2, LimitMax, LimitMax + 1}
SearchCategories == {None, <<>>, DefaultCategory, <<"v">>}
QueryDays == 0..(utc_today(MaxClock) + 1)
DayCounts == (0 - 1)..(utc_today(MaxClock) + 2)

\* The database without the index and its triggers.
NoIndex(D) == [D EXCEPT !.schema.fts = FALSE, !.entries_fts = {}]

\* A filter on all fields for the words a and b, as add_feed_filter stores it.
WithFilter(D, feed_id) ==
    add_feed_filter(D, feed_id, <<"f">>, <<"a", ",", "b">>, <<>>, <<>>, FALSE, utc_now_iso(now))

\* C12 (SpecQueries): on a machine without FTS5 the store opens with
\* _fts_enabled false and without index; from every reachable database, add_feed,
\* a pass of fetch_all, delete_feed, the filter operations, the date and recency
\* queries and the filtered listing give, on the database without the index, the
\* same outcome and the same tables as on the database with it; and search
\* without the index does not raise and returns what _search_like returns.
DegradedModeEquivalent ==
    /\ (store.release = "new" /\ ~fts5) =>
          /\ ~store.fts_enabled
          /\ schema.feeds /\ schema.category /\ schema.filters
          /\ ~schema.fts /\ entries_fts = {}
    /\ ~schema.fts => init_db(Db, FALSE) = NoIndex(init_db(Db, TRUE))
    /\ Idle =>
        LET N == NoIndex(Db)
        IN  /\ \A url \in UrlInputs, category \in CategoryInputs, title \in TitleInputs :
                  LET r == add_feed(Db, url, category, title)
                      n == add_feed(N, url, category, title)
                  IN  n.raised = r.raised /\ n.id = r.id /\ n.db = NoIndex(r.db)
            /\ get_feed_rows(N) = get_feed_rows(Db)
            /\ \A k \in 1..Len(get_feed_rows(Db)) : \A d \in FetchResults :
                  LET f == get_feed_rows(Db)[k]
                      r == fetch_one_feed(Db, f, d, now)
                      n == fetch_one_feed(N, f, d, now)
                  IN  /\ n.raised = r.raised
                      /\ n.db = NoIndex(r.db)
                      /\ ~r.raised => n.inserted = r.inserted /\ n.seen = r.seen
            /\ \A a \in DeleteArgs :
                  LET r == delete_feed(Db, a[1], a[2])
                      n == delete_feed(N, a[1], a[2])
                  IN  n.raised = r.raised /\ n.rowcount = r.rowcount /\ n.db = NoIndex(r.db)
            /\ \A i \in 1..MaxFeedRows :
                  LET r == WithFilter(Db, i)
                      n == WithFilter(N, i)
                  IN  /\ n.raised = r.raised /\ n.id = r.id /\ n.db = NoIndex(r.db)
                      /\ \A j \in 1..MaxFilterRows :
                            /\ deactivate_feed_filter(n.db, j).rowcount
                                  = deactivate_feed_filter(r.db, j).rowcount
                            /\ deactivate_feed_filter(n.db, j).db
                                  = NoIndex(deactivate_feed_filter(r.db, j).db)
                            /\ remove_feed_filter(n.db, j).rowcount
                                  = remove_feed_filter(r.db, j).rowcount
                            /\ remove_feed_filter(n.db, j).db
                                  = NoIndex(remove_feed_filter(r.db, j).db)
                      /\ \A limit \in SearchLimits, p \in BOOLEAN :
                            /\ get_filtered_entries_for_feed(n.db, i, limit, p)
                                  = get_filtered_entries_for_feed(r.db, i, limit, p)
                            /\ list_feed_filters(n.db, i, p) = list_feed_filters(r.db, i, p)
            /\ \A p \in BOOLEAN :
                  /\ \A day \in QueryDays :
                        get_updates_for_day(N, day, p) = get_updates_for_day(Db, day, p)
                  /\ \A days \in DayCounts :
                        get_updates_last_days(N, now, days, p)
                            = get_updates_last_days(Db, now, days, p)
                  /\ \A i \in 1..MaxFeedRows, limit \in SearchLimits :
                        get_last_entries_for_feed(N, i, limit, p)
                            = get_last_entries_for_feed(Db, i, limit, p)
            /\ \A query \in SearchQueries, limit \in SearchLimits,
                  category \in SearchCategories :
                  LET n == search(N, FALSE, query, limit, category)
                  IN  /\ ~n.raised
                      /\ n.rows = IF strip(query) = <<>> THEN <<>>
                                  ELSE search_like(N, strip(query), ClampLimit(limit),
                                                   category)
            /\ \A query \in SearchQueries :
                  ~store.fts_enabled => ~search(Db, store.fts_enabled, query, 1, None).raised

\* C12, the case: a store opened without FTS5 has ingested entries, holds no
\* index row, and search finds an entry by a word of its title.
DegradedStoreServes ==
    /\ Idle
    /\ ~fts5
    /\ ~store.fts_enabled
    /\ entries # {}
    /\ entries_fts = {}
    /\ search(Db, store.fts_enabled, <<"a">>, 1, None).rows # <<>>

\* Filters as list_feed_filters returns them.
FilterValues ==
    [include_keywords : {<< <<"a">> >>, << <<"A">>, <<"b">> >>, << <<"A", "B">> >>,
                         << <<"A", "\n", "B">> >>},
     exclude_keywords : {<<>>, << <<"B">> >>},
     match_fields : {<<FieldTitle>>, <<FieldTitle, FieldSummary>>,
                     <<FieldContent, FieldTitle>>,
                     <<FieldTitle, FieldSummary, FieldContent>>},
     is_case_sensitive : BOOLEAN]

\* The claim's example: the title 'AI startup raises seed'.
ExampleEntry ==
    [title |-> <<"A", "I", " ", "s", "t", "a", "r", "t", "u", "p", " ",
                 "r", "a", "i", "s", "e", "s", " ", "s", "e", "e", "d">>,
     summary |-> None, content |-> None]
ExampleFilter ==
    [include_keywords |-> << <<"a", "i">>, <<"s", "t", "a", "r", "t", "u", "p">> >>,
     exclude_keywords |-> << <<"s", "e", "e", "d">> >>,
     match_fields |-> <<FieldTitle>>, is_case_sensitive |-> FALSE]

\* Every include keyword and no exclude keyword is a substring of the non-empty
\* values of the match fields joined by sep, without regard to case unless the
\* filter is case-sensitive.
MatchesJoined(e, flt, sep) ==
    LET Fold(t) == IF flt.is_case_sensitive THEN t ELSE lower(t)
        text == Fold(Haystack(e, flt.match_fields, sep))
    IN  /\ \A k \in Range(flt.include_keywords) : Contains(text, Fold(k))
        /\ \A k \in Range(flt.exclude_keywords) : ~Contains(text, Fold(k))

\* C13 (SpecQueries), amended: _entry_matches_filter is true exactly when every
\* include keyword and no exclude keyword is a substring of the non-empty values
\* of the match fields, taken in the order of the match fields and joined by a
\* newline, compared without regard to case unless the filter is case-sensitive;
\* the claim's example does not match, and matches without its exclude keyword.
EntryMatchesFilterJoinedByNewline ==
    /\ \A e \in entries, flt \in FilterValues :
          entry_matches_filter(e, flt) <=> MatchesJoined(e, flt, <<"\n">>)
    /\ ~entry_matches_filter(ExampleEntry, ExampleFilter)
    /\ entry_matches_filter(ExampleEntry, [ExampleFilter EXCEPT !.exclude_keywords = <<>>])

\* C13 as the specification states it: the keywords are looked for in the
\* concatenation of the values.
EntryMatchesFilterConcatenated ==
    \A e \in entries, flt \in FilterValues :
        entry_matches_filter(e, flt) <=> MatchesJoined(e, flt, <<>>)

\* C13, the case: a stored entry with title A and summary B matches the keyword
\* a without regard to case, not with it, not when B is excluded, and does not
\* match the keyword AB, which lies across the two values.
EntryMatchedByFilter ==
    \E e \in entries :
        LET flt == [include_keywords |-> << <<"a">> >>, exclude_keywords |-> <<>>,
                    match_fields |-> <<FieldTitle, FieldSummary>>,
                    is_case_sensitive |-> FALSE]
        IN  /\ e.title = <<"A">> /\ e.summary = <<"B">>
            /\ entry_matches_filter(e, flt)
            /\ ~entry_matches_filter(e, [flt EXCEPT !.is_case_sensitive = TRUE])
            /\ ~entry_matches_filter(e, [flt EXCEPT !.exclude_keywords = << <<"B">> >>])
            /\ ~entry_matches_filter(e, [flt EXCEPT !.include_keywords = << <<"A", "B">> >>])

ListingLimits == {0, 1, 2, 50}

\* The enabled filters of the feed i.
EnabledFiltersOf(D, i) == {f \in D.feed_filters : f.feed_id = i /\ f.is_enabled}

\* C14 (SpecListing): get_filtered_entries_for_feed returns all entries of
\* get_last_entries_for_feed when the feed has no enabled filter, and otherwise,
\* in the same order, those of them that at least one enabled filter of the feed
\* matches; it returns the same on the database that holds only the enabled
\* filters of that feed.
FilteredListingByEnabledFilters ==
    Idle =>
        \A i \in 1..MaxFeedRows, limit \in ListingLimits, p \in BOOLEAN :
            LET all == get_last_entries_for_feed(Db, i, limit, p)
                enabled == EnabledFiltersOf(Db, i)
                listed == get_filtered_entries_for_feed(Db, i, limit, p)
            IN  /\ listed = IF enabled = {} THEN all
                            ELSE SelectSeq(all, LAMBDA e :
                                     \E f \in enabled :
                                         entry_matches_filter(e, filter_from_row(f)))
                /\ listed = get_filtered_entries_for_feed(
                                [Db EXCEPT !.feed_filters = enabled], i, limit, p)

\* C14, the case: a feed with three entries has an enabled filter that matches
\* one of them and a disabled filter that matches another; the listing holds
\* the entry the enabled filter matches.
ListingFilteredByEnabledOnly ==
    /\ Idle
    /\ \E i \in DOMAIN feeds :
          LET all == get_last_entries_for_feed(Db, i, 50, TRUE)
              listed == get_filtered_entries_for_feed(Db, i, 50, TRUE)
          IN  /\ Len(all) = 3
              /\ Len(listed) = 1
              /\ \E f \in FiltersOf(Db, i) : f.is_enabled
              /\ \E f \in FiltersOf(Db, i) :
                    /\ ~f.is_enabled
                    /\ \E k \in 1..Len(all) :
                          /\ entry_matches_filter(all[k], filter_from_row(f))
                          /\ \A m \in 1..Len(listed) : listed[m] # all[k]

\* published_at, or fetched_at when use_published_at is false.
ChosenColumn(e, use_published_at) ==
    IF use_published_at THEN e.published_at ELSE e.fetched_at

\* The rows are in descending order of COALESCE(published_at, fetched_at), none twice.
OrderedByDate(rows) ==
    /\ \A j, k \in 1..Len(rows) : j < k => OrderKey(rows[j], TRUE) >= OrderKey(rows[k], TRUE)
    /\ \A j, k \in 1..Len(rows) : j # k => rows[j] # rows[k]

\* The stored entries whose chosen timestamp lies in the days from..to.
EntriesOfDays(from, to, use_published_at) ==
    {e \in entries :
        /\ ChosenColumn(e, use_published_at) # NoTime
        /\ utc_today(ChosenColumn(e, use_published_at)) \in from..to}

\* C15 (SpecQueries): get_updates_for_day(day, use_published_at) returns, in
\* descending order of coalesce(published_at, fetched_at), exactly the stored
\* entries whose chosen timestamp lies in that day, its first and its last second
\* included; an entry without the chosen timestamp is not returned.
UpdatesForDayExact ==
    \A day \in QueryDays, p \in BOOLEAN :
        LET rows == get_updates_for_day(Db, day, p)
        IN  /\ Range(rows) = EntriesOfDays(day, day, p)
            /\ Range(rows) = {e \in entries :
                                 /\ ChosenColumn(e, p) # NoTime
                                 /\ DayStart(day) <= ChosenColumn(e, p)
                                 /\ ChosenColumn(e, p) <= DayEnd(day)}
            /\ OrderedByDate(rows)
            /\ \A k \in 1..Len(rows) : ChosenColumn(rows[k], p) # NoTime

\* C15, the case: of three stored entries, the one published on the last second
\* of the first day is returned for that day, the one published on the first
\* second of the next day is not, and the one without publication date is
\* returned for no day by publication date but for the day it was fetched.
DayBoundariesQueried ==
    \E x, y, z \in entries :
        /\ x.published_at = DayEnd(0)
        /\ y.published_at = DayStart(1)
        /\ z.published_at = NoTime
        /\ Range(get_updates_for_day(Db, 0, TRUE)) = {e \in entries : e.published_at = DayEnd(0)}
        /\ \A day \in QueryDays : z \notin Range(get_updates_for_day(Db, day, TRUE))
        /\ z \in Range(get_updates_for_day(Db, utc_today(z.fetched_at), FALSE))

\* C16 (SpecQueries): get_updates_last_days(n), called at the instant now,
\* returns the empty list for every n <= 0 and, for n >= 1, in descending order
\* of coalesce(published_at, fetched_at), exactly the entries whose chosen
\* timestamp lies in today or one of the n - 1 days before it: the union of
\* get_updates_for_day over these days.
UpdatesLastDaysExact ==
    \A days \in DayCounts, p \in BOOLEAN :
        LET rows == get_updates_last_days(Db, now, days, p)
            today == utc_today(now)
        IN  /\ days <= 0 => rows = <<>>
            /\ days >= 1 =>
                  /\ Range(rows) = EntriesOfDays(today - (days - 1), today, p)
                  /\ Range(rows) = UNION {Range(get_updates_for_day(Db, today - k, p)) :
                                             k \in 0..(days - 1)}
                  /\ OrderedByDate(rows)
            /\ days = 1 => rows = get_updates_for_day(Db, today, p)

\* C16, the case: on the fourth day, the entry published on the second day is
\* among the updates of the last three days and the entry published on the first
\* day is not, but is among those of the last four days; an entry fetched today
\* is among the updates of the last day by fetch time.
LastDaysWindowQueried ==
    /\ utc_today(now) = 3
    /\ \E x, y \in entries :
          /\ utc_today(x.published_at) = 0
          /\ utc_today(y.published_at) = 1
          /\ y \in Range(get_updates_last_days(Db, now, 3, TRUE))
          /\ x \notin Range(get_updates_last_days(Db, now, 3, TRUE))
          /\ x \in Range(get_updates_last_days(Db, now, 4, TRUE))
          /\ get_updates_last_days(Db, now, 2, TRUE) = <<>>
    /\ get_updates_last_days(Db, now, 1, FALSE) # <<>>
    /\ get_updates_last_days(Db, now, 0, FALSE) = <<>>

\* The stored entries of the feeds of the category, of every feed when none is given.
EntriesInCategory(category) ==
    {e \in entries : Truthy(category) => feeds[e.feed_id].category = category}

\* The text v has a part that the LIKE pattern q matches.
HasLike(v, q) ==
    v # None /\ \E i \in 1..(Len(v) + 1) : \E j \in (i - 1)..Len(v) :
                    LikeMatch(q, SubSeq(v, i, j))

\* The text v has the part q, letter for letter.
HasExactly(v, q) == v # None /\ Contains(v, q)

Wildcards == {"%", "_"}

\* C17 (SpecQueries), amended: without the index, search returns, in descending
\* order of coalesce(published_at, fetched_at) and up to the limit, exactly the
\* entries (of the feeds of the category, when one is given) whose title or
\* summary has a part that the trimmed query matches as a LIKE pattern: letters
\* compare without regard to case, % stands for any text and _ for any one
\* character; for a query without % and _ these are the entries whose title or
\* summary contains the query when case is disregarded.  An entry that has the
\* query only in its content is not returned.
SearchLikeTitleAndSummary ==
    (Idle /\ ~store.fts_enabled) =>
        \A query \in SearchQueries, category \in SearchCategories :
            LET q == strip(query)
                r == search(Db, store.fts_enabled, query, 50, category)
                found == {e \in EntriesInCategory(category) :
                             HasLike(e.title, q) \/ HasLike(e.summary, q)}
            IN  /\ ~r.raised
                /\ Range(r.rows) = IF q = <<>> THEN {} ELSE found
                /\ OrderedByDate(r.rows)
                /\ (q # <<>> /\ Range(q) \cap Wildcards = {}) =>
                      found = {e \in EntriesInCategory(category) :
                                  \/ e.title # None /\ Contains(lower(e.title), lower(q))
                                  \/ e.summary # None /\ Contains(lower(e.summary), lower(q))}
                /\ \A e \in entries :
                      (~HasLike(e.title, q) /\ ~HasLike(e.summary, q)) =>
                          e \notin Range(r.rows)

\* C17 as the specification states it: the entries whose title or summary
\* contains the trimmed query as a substring.
SearchLikeExactSubstring ==
    (Idle /\ ~store.fts_enabled) =>
        \A query \in SearchQueries, category \in SearchCategories :
            LET q == strip(query)
                r == search(Db, store.fts_enabled, query, 50, category)
            IN  Range(r.rows) =
                    IF q = <<>> THEN {}
                    ELSE {e \in EntriesInCategory(category) :
                             HasExactly(e.title, q) \/ HasExactly(e.summary, q)}

\* C17, the case: without the index, the query B finds the entry with the
\* summary B and the entry with the title B, the query a does not find the entry
\* that has A only in its content, and a search in the category v finds an entry.
SearchedWithoutIndex ==
    /\ Idle
    /\ ~store.fts_enabled
    /\ \E x, y \in entries :
          /\ x.summary = <<"B">>
          /\ y.title = <<"B">> /\ y.content = <<"A">>
          /\ {x, y} \subseteq Range(search(Db, store.fts_enabled, <<"B", " ">>, 50, None).rows)
          /\ y \notin Range(search(Db, store.fts_enabled, <<"a">>, 50, None).rows)
    /\ search(Db, store.fts_enabled, <<"a">>, 50, <<"v">>).rows # <<>>
    /\ Len(search(Db, store.fts_enabled, <<"a">>, 50, <<"v">>).rows)
          < Len(search(Db, store.fts_enabled, <<"a">>, 50, None).rows)

\* max(1, min(limit, 500)), case by case.
EffectiveLimit(limit) ==
    IF limit < 1 THEN 1 ELSE IF limit > LimitMax THEN LimitMax ELSE limit

\* The first min(n, Len(rows)) rows.
FirstRows(rows, n) == [k \in 1..(IF n < Len(rows) THEN n ELSE Len(rows)) |-> rows[k]]

\* C18 (SpecQueries): for every limit, get_last_entries_for_feed and search, with
\* and without the index, return the first min(max(1, min(limit, 500)), number
\* of matching entries) entries of the ordered result (the result for the limit
\* 500, the store holding fewer entries than that); a limit below 1 gives what
\* the limit 1 gives, a limit above 500 what the limit 500 gives.
LimitClamped ==
    Idle =>
        /\ Cardinality(entries) < LimitMax
        /\ \A limit \in SearchLimits :
              LET n == EffectiveLimit(limit)
              IN  /\ ClampLimit(limit) = n
                  /\ \A i \in 1..MaxFeedRows, p \in BOOLEAN :
                        LET all == get_last_entries_for_feed(Db, i, LimitMax, p)
                            rows == get_last_entries_for_feed(Db, i, limit, p)
                        IN  /\ Len(all) = Cardinality(EntriesOf(Db, i))
                            /\ rows = FirstRows(all, n)
                            /\ limit < 1 => rows = get_last_entries_for_feed(Db, i, 1, p)
                            /\ limit > LimitMax => rows = all
                  /\ \A indexed \in {FALSE, store.fts_enabled},
                        query \in {<<"a">>, <<"%">>}, category \in {None, <<"v">>} :
                        LET all == search(Db, indexed, query, LimitMax, category)
                            r == search(Db, indexed, query, limit, category)
                        IN  /\ r.raised = all.raised
                            /\ r.rows = FirstRows(all.rows, n)
                            /\ limit < 1 => r = search(Db, indexed, query, 1, category)
                            /\ limit > LimitMax => r = all

\* C18, the case: in a store with the index, three entries of one feed are
\* listed and found by a search with the index and two by a search without it;
\* with the limits 0 and -1 each of the three calls returns its first entry
\* only, with the limit 2 its first two.
LimitsApplied ==
    /\ Idle
    /\ store.fts_enabled
    /\ \E i \in DOMAIN feeds :
          /\ Len(get_last_entries_for_feed(Db, i, LimitMax + 1, TRUE)) = 3
          /\ Len(get_last_entries_for_feed(Db, i, 0, TRUE)) = 1
          /\ Len(get_last_entries_for_feed(Db, i, 2, TRUE)) = 2
    /\ Len(search(Db, TRUE, <<"a">>, LimitMax + 1, None).rows) >= 3
    /\ Len(search(Db, TRUE, <<"a">>, 0 - 1, None).rows) = 1
    /\ Len(search(Db, TRUE, <<"a">>, 2, None).rows) = 2
    /\ Len(search(Db, FALSE, <<"a">>, LimitMax, None).rows) >= 2
    /\ Len(search(Db, FALSE, <<"a">>, 0, None).rows) = 1

\* Arguments of add_feed_filter, by what is wrong with them.
BlankTexts == {<<>>, <<" ">>}
EmptyListTexts == {<<" ", ",">>, <<"[", "]">>}
MalformedJsonTexts == {<<"[", Quote, "A">>, <<"[", "A", "]">>}
UnknownFieldTexts == {<<"x">>, FieldTitle \o <<",", "x">>}
GoodKeywordTexts == {<<"A">>, <<"[", Quote, "A", Quote, "]">>}
GoodFieldTexts == {<<>>, <<"T">> \o Tail(FieldTitle)}

FilterArgs ==
    [feed_id : 1..(MaxFeedRows + 1),
     name : BlankTexts \cup {<<"g">>},
     include : BlankTexts \cup EmptyListTexts \cup MalformedJsonTexts \cup GoodKeywordTexts,
     exclude : {<<>>} \cup MalformedJsonTexts,
     fields : EmptyListTexts \cup MalformedJsonTexts \cup UnknownFieldTexts
                 \cup GoodFieldTexts]

\* C19 (SpecFilters): add_feed with an empty or blank URL raises and writes
\* nothing; add_feed_filter raises and writes nothing when the name is empty or
\* blank, the include keywords are empty, a match field is unknown, the match
\* fields parse to an empty list, a keyword or field text is malformed JSON, or
\* the feed id is not the id of a feed.
InvalidArgumentsRejected ==
    Idle =>
        /\ \A url \in BlankTexts, category \in CategoryInputs, title \in TitleInputs :
              LET r == add_feed(Db, url, category, title)
              IN  r.raised /\ r.db = Db
        /\ \A a \in FilterArgs :
              LET r == add_feed_filter(Db, a.feed_id, a.name, a.include, a.exclude,
                                       a.fields, FALSE, utc_now_iso(now))
              IN  (\/ a.name \in BlankTexts
                   \/ a.include \in BlankTexts \cup EmptyListTexts \cup MalformedJsonTexts
                   \/ a.exclude \in MalformedJsonTexts
                   \/ a.fields \in EmptyListTexts \cup MalformedJsonTexts \cup UnknownFieldTexts
                   \/ a.feed_id \notin DOMAIN feeds)
                  => (r.raised /\ r.db = Db)

\* C19, the case: a store with one feed left of two and a filter on it accepts a
\* filter g with the keyword A for that feed, and rejects the same filter for the
\* id of the deleted feed, with an unknown field, and with malformed JSON.
FilterRejectedAndAccepted ==
    /\ Idle
    /\ feed_seq = 2
    /\ feed_filters # {}
    /\ \E i, j \in 1..MaxFeedRows :
          /\ i \in DOMAIN feeds
          /\ j \notin DOMAIN feeds
          /\ ~add_feed_filter(Db, i, <<"g">>, <<"A">>, <<>>, <<>>, FALSE, utc_now_iso(now)).raised
          /\ add_feed_filter(Db, j, <<"g">>, <<"A">>, <<>>, <<>>, FALSE, utc_now_iso(now)).raised
          /\ add_feed_filter(Db, i, <<"g">>, <<"A">>, <<>>, <<"x">>, FALSE, utc_now_iso(now)).raised
          /\ add_feed_filter(Db, i, <<"g">>, <<"[", "A", "]">>, <<>>, <<>>, FALSE, utc_now_iso(now)).raised
          /\ ~add_feed_filter(Db, i, <<"g">>, <<"[", Quote, "A", Quote, "]">>, <<>>,
                              <<"T">> \o Tail(FieldTitle), FALSE,
                              utc_now_iso(now)).raised

\* delete_feed arguments that do not raise: an id (with or without a URL), or a
\* non-empty URL alone.
DeleteCalls ==
    {a \in (0..(MaxFeedRows + 1)) \X (UrlInputs \cup {None, <<>>}) :
        a[1] # 0 \/ Truthy(a[2])}

\* the feed rows a delete_feed call names
NamedFeeds(a) ==
    IF a[1] # 0 THEN {i \in DOMAIN feeds : i = a[1]}
    ELSE {i \in DOMAIN feeds : feeds[i].url = strip(a[2])}

\* C20 (SpecFilters): delete_feed, deactivate_feed_filter and remove_feed_filter
\* never raise for an id or URL; when no row matches they return 0 and leave
\* the store unchanged, and when a row matches they return 1.
NotFoundReturnsZero ==
    Idle =>
        /\ \A a \in DeleteCalls :
              LET r == delete_feed(Db, a[1], a[2])
              IN  /\ ~r.raised
                  /\ NamedFeeds(a) = {} => (r.rowcount = 0 /\ r.db = Db)
                  /\ NamedFeeds(a) # {} => (r.rowcount = 1 /\ r.db # Db)
        /\ \A filter_id \in 1..(MaxFilterRows + 1) :
              LET off == deactivate_feed_filter(Db, filter_id)
                  rm == remove_feed_filter(Db, filter_id)
                  found == \E f \in feed_filters : f.id = filter_id
              IN  /\ ~found => /\ off.rowcount = 0 /\ off.db = Db
                               /\ rm.rowcount = 0 /\ rm.db = Db
                  /\ found => /\ off.rowcount = 1
                              /\ rm.rowcount = 1 /\ rm.db # Db

\* C20, the case: one feed of two is left and one filter of two, switched off;
\* the ids of the deleted feed and of the removed filter match no row, and the
\* filter that is already off still counts as a matched row.
MissingAndMatchingIds ==
    /\ Idle
    /\ feed_seq = 2 /\ Cardinality(DOMAIN feeds) = 1
    /\ filter_seq = 2 /\ Cardinality(feed_filters) = 1
    /\ \A f \in feed_filters : ~f.is_enabled /\ deactivate_feed_filter(Db, f.id).rowcount = 1
    /\ \E i \in 1..2 : delete_feed(Db, i, None).rowcount = 0
    /\ \E i \in 1..2 : delete_feed(Db, i, None).rowcount = 1
    /\ \E k \in 1..2 : remove_feed_filter(Db, k).rowcount = 0

\* Raw entries for entry_guid: combinations of absent, empty, blank, plain and
\* padded values of the fields it reads.
GuidInputs ==
    {[RawBlank EXCEPT !.id = i, !.guid = g, !.link = l, !.title = t, !.published = p] :
        i \in {None, <<>>, <<" ">>, <<"x">>, <<" ", "x", " ">>},
        g \in {None, <<>>, <<"g", " ">>}, l \in {None, <<" ">>, <<" ", "l">>},
        t \in {None, <<"A", " ">>}, p \in {None, <<" ", "p">>}}

TextOrEmpty(v) == IF v = None THEN <<>> ELSE v

\* The identifier the priority order gives when the values are taken as they are.
FirstOfIdGuidLink(e) ==
    IF Truthy(e.id) THEN e.id
    ELSE IF Truthy(e.guid) THEN e.guid
    ELSE IF Truthy(e.link) THEN e.link
    ELSE Sha256Hex(TextOrEmpty(e.title) \o <<"|">> \o TextOrEmpty(e.published))

\* The same with surrounding whitespace removed from each value read.
FirstOfIdGuidLinkStripped(e) ==
    IF Truthy(e.id) \/ Truthy(e.guid) \/ Truthy(e.link) THEN strip(FirstOfIdGuidLink(e))
    ELSE Sha256Hex(strip(TextOrEmpty(e.title)) \o <<"|">> \o strip(TextOrEmpty(e.published)))

\* A pass of the feed at hand over the single item e stores it under guid, or
\* finds an entry of the feed stored under guid.
StoredUnder(e, guid) ==
    LET f == Head(pending)
        d == [status |-> 200, etag |-> None, title |-> None, entries |-> <<e>>]
        r == fetch_one_feed(Db, f, d, utc_now_iso(now))
        had == \E row \in entries : row.feed_id = f.id /\ row.guid = guid
    IN  /\ ~r.raised
        /\ \E row \in r.db.entries : row.feed_id = f.id /\ row.guid = guid
        /\ r.inserted = IF had THEN 0 ELSE 1

\* C21 as stated (SpecItems): an item is stored under its id, else its guid, else
\* its link, else the digest of title + "|" + published.
EntryGuidIsFirstField ==
    (pc = "fetching" /\ pending # <<>>) =>
        \A e \in GuidInputs : StoredUnder(e, FirstOfIdGuidLink(e))

\* C21 (SpecItems): an item is stored under the first non-empty of its id, guid
\* and link with surrounding whitespace removed (the empty text for a blank
\* one), else under the digest of the stripped title, "|" and the stripped
\* published text; the identifier does not depend on any other field.
EntryGuidIsFirstFieldStripped ==
    (pc = "fetching" /\ pending # <<>>) =>
        \A e \in GuidInputs :
            /\ StoredUnder(e, FirstOfIdGuidLinkStripped(e))
            /\ entry_guid(e) = FirstOfIdGuidLinkStripped(e)
            /\ \A c \in {<<>>, << <<"A">> >>}, t \in {NoTime, 0} :
                  entry_guid([e EXCEPT !.author = <<"u">>, !.summary = <<"u">>,
                                       !.subtitle = <<"u">>, !.content = c,
                                       !.published_parsed = t, !.updated_parsed = t])
                     = entry_guid(e)

\* C21, the case: the store holds the item with an id under its stripped id, the
\* item with a blank id under the empty identifier, the item with a link only
\* under the stripped link and the item with none of them under the digest.
EntriesUnderEachIdentifier ==
    /\ pc = "idle"
    /\ {<<"x">>, <<>>, <<"l">>, Sha256Hex(<<"A", "|", "p">>)} \subseteq {e.guid : e \in entries}

\* The raw lists of a pass: the items served and a later version of the first.
PassEntries ==
    ItemEntries \cup {[RawBlank EXCEPT !.id = <<"x">>, !.title = <<"B">>, !.link = <<"m">>]}
PassLists == UNION {[1..n -> PassEntries] : n \in 0..MaxEntries}

\* C22 (SpecItems): a pass over a result of status 200 does not raise, counts as
\* seen the length of the raw list and as inserted the number of distinct
\* identifiers in it that no entry of the feed had before the pass; the entries
\* stored before stay, and exactly the inserted ones are added.
PassCountsSeenAndInserted ==
    (pc = "fetching" /\ pending # <<>>) =>
        \A raw \in PassLists, etag \in FetchEtags :
            LET f == Head(pending)
                d == [status |-> 200, etag |-> etag, title |-> None, entries |-> raw]
                r == fetch_one_feed(Db, f, d, utc_now_iso(now))
                stored == {row.guid : row \in {e \in entries : e.feed_id = f.id}}
                fresh == {FirstOfIdGuidLinkStripped(raw[k]) : k \in 1..Len(raw)} \ stored
            IN  /\ ~r.raised
                /\ r.seen = Len(raw)
                /\ r.inserted = Cardinality(fresh)
                /\ entries \subseteq r.db.entries
                /\ {row.guid : row \in r.db.entries \ entries} = fresh
                /\ Cardinality(r.db.entries) = Cardinality(entries) + r.inserted

\* C22, the case: a pass over a list that repeats one item, of a feed that has
\* this item and others stored, is about to run: it sees two and inserts none.
PassOverStoredDuplicates ==
    /\ pc = "fetching" /\ pending # <<>>
    /\ Cardinality(entries) >= 2
    /\ \E e \in ItemEntries :
          LET d == [status |-> 200, etag |-> None, title |-> None, entries |-> <<e, e>>]
              r == fetch_one_feed(Db, Head(pending), d, utc_now_iso(now))
          IN  /\ \E row \in entries : row.guid = entry_guid(e)
              /\ ~r.raised /\ r.seen = 2 /\ r.inserted = 0

\* Later versions of the items x and z: the same id, other values in the fields.
LaterVersions ==
    {[RawBlank EXCEPT !.id = i, !.title = t, !.link = l, !.author = l, !.summary = u,
                      !.content = c, !.published_parsed = p] :
        i \in {<<"x">>, <<" ", "z">>}, t \in {<<"A">>, <<"C">>}, l \in {None, <<"m">>},
        u \in {None, <<"s">>}, c \in {<<>>, << <<"c">> >>}, p \in {NoTime, 0, 1}}

\* Every row of now is a row of the next state, unless its feed is deleted; no
\* row of the next state has the id of a different row of now.
EntriesKept ==
    /\ \A e \in entries : e \in entries' \/ e.feed_id \notin DOMAIN feeds'
    /\ \A e \in entries' : (\E o \in entries : o.id = e.id) => e \in entries

\* A pass of the feed at hand over any later version of an item leaves every
\* stored row as it is.
LaterVersionIgnored ==
    (pc = "fetching" /\ pending # <<>>) =>
        \A e \in LaterVersions :
            LET d == [status |-> 200, etag |-> None, title |-> None, entries |-> <<e>>]
                r == fetch_one_feed(Db, Head(pending), d, utc_now_iso(now))
            IN  /\ ~r.raised
                /\ entries \subseteq r.db.entries
                /\ (\E row \in entries : row.feed_id = Head(pending).id
                                           /\ row.guid = strip(e.id))
                      => (r.inserted = 0 /\ r.db.entries = entries)

\* C23 (Spec): no step changes a stored entry: every entry stays in the store
\* with all its values, fetched_at included, until its feed is deleted, also
\* when a later pass returns its item with the same identifier and another
\* title, link, author, summary, content or published time.
StoredEntryNeverChanges == [][EntriesKept]_vars /\ []LaterVersionIgnored

\* C23, the case: a pass at a later second is about to run for a feed whose item
\* x is stored with the title A, its date and the earlier fetch time; the pass
\* over the version titled B, without a date, inserts nothing and keeps the row.
LaterVersionOfStoredEntryServed ==
    /\ pc = "fetching" /\ pending # <<>>
    /\ now = 1
    /\ \E row \in entries :
          /\ row.feed_id = Head(pending).id /\ row.guid = <<"x">>
          /\ row.title = <<"A">> /\ row.published_at = 0 /\ row.fetched_at = 0
          /\ LET e == [RawBlank EXCEPT !.id = <<"x", " ">>, !.title = <<"B">>]
                 d == [status |-> 200, etag |-> None, title |-> None, entries |-> <<e>>]
                 r == fetch_one_feed(Db, Head(pending), d, utc_now_iso(now))
             IN  e \in RawEntries /\ d \in Served[Head(pending).url]
                 /\ r.inserted = 0 /\ r.seen = 1 /\ row \in r.db.entries

\* C24 (Spec), as the specification states it: a pass whose result has status 304
\* leaves the title of its feed as it was, whatever title the result carries.
NotModifiedKeepsTitle ==
    InPass =>
        \A d \in FetchResults :
            LET f == Head(pending)
                r == fetch_one_feed(Db, f, d, utc_now_iso(now))
            IN  d.status = NotModified =>
                    /\ ~r.raised
                    /\ r.db.feeds[f.id].title = feeds[f.id].title

Listed(rows) == {rows[k] : k \in 1..Len(rows)}

\* A filter row of now is the same row in the next state, or the same row
\* switched off, or gone; a filter that is off is not on in the next state, and
\* a row that is new has an id no filter had before.
FilterRowKeptOrOff ==
    /\ \A f \in feed_filters : \A g \in feed_filters' :
          g.id = f.id => (g = f \/ (f.is_enabled /\ g = [f EXCEPT !.is_enabled = FALSE]))
    /\ \A g \in feed_filters' :
          (\A f \in feed_filters : f.id # g.id) => g.id > filter_seq

\* What deactivate_feed_filter, remove_feed_filter and a second add_feed_filter
\* under the same name do to the filter f.
FilterOffAndRemoved(f) ==
    LET off == deactivate_feed_filter(Db, f.id)
        rm == remove_feed_filter(Db, f.id)
        f_off == [f EXCEPT !.is_enabled = FALSE]
        again == add_feed_filter(Db, f.feed_id, f.name, <<"B">>, <<>>, <<>>, FALSE,
                                 utc_now_iso(now))
    IN  /\ off.db = [Db EXCEPT !.feed_filters = (@ \ {f}) \cup {f_off}]
        /\ \A feed_id \in {0, f.feed_id} :
              /\ Len(list_feed_filters(off.db, feed_id, FALSE))
                    = Len(list_feed_filters(Db, feed_id, FALSE))
              /\ filter_from_row(f_off) \in Listed(list_feed_filters(off.db, feed_id, FALSE))
              /\ \A g \in Listed(list_feed_filters(off.db, feed_id, TRUE)) :
                    g.id # f.id /\ g.is_enabled
              /\ \A g \in Listed(list_feed_filters(rm.db, feed_id, FALSE)) : g.id # f.id
        /\ rm.db = [Db EXCEPT !.feed_filters = @ \ {f}]
        /\ again.raised /\ again.db = Db

\* C25 (SpecFilters): deactivate_feed_filter changes nothing of the filter's row
\* but is_enabled, which becomes false: list_feed_filters still returns the
\* filter, and with only_enabled no longer; remove_feed_filter deletes the row;
\* no step of the program and no call switches a filter that is off on again.
FilterSoftAndHardRemoval ==
    /\ [][FilterRowKeptOrOff]_vars
    /\ [](Idle => \A f \in feed_filters : FilterOffAndRemoved(f))

\* C25, the case: at a later second than its creation a filter is off and its
\* row still listed, but not among the enabled ones, and the other filter that
\* was created is gone.
FilterOffStillListed ==
    /\ Idle
    /\ now = 1
    /\ filter_seq = 2
    /\ \E f \in feed_filters :
          /\ feed_filters = {f}
          /\ ~f.is_enabled /\ f.created_at = 0
          /\ list_feed_filters(Db, f.feed_id, FALSE) = <<filter_from_row(f)>>
          /\ list_feed_filters(Db, f.feed_id, TRUE) = <<>>
          /\ deactivate_feed_filter(Db, f.id).db = Db

\* Lists of items for the two grammars: plain, padded, blank and two-word items
\* for keywords; field names in both cases, padded and repeated.
KeywordItems == {<<"A">>, <<" ", "b">>, <<" ">>, <<"A", " ", "b", " ">>}
KeywordLists == UNION {[1..n -> KeywordItems] : n \in 0..2}
FieldItems ==
    {FieldTitle, <<"T">> \o Tail(FieldTitle) \o <<" ">>, <<" ">> \o FieldSummary,
     <<"C", "O", "N", "T", "E", "N", "T">>}
FieldLists ==
    UNION {[1..n -> FieldItems] : n \in 1..2}
        \cup {<< <<" ">> \o FieldSummary, FieldTitle, <<"T">> \o Tail(FieldTitle) \o <<" ">> >>}

\* The text of a list in each grammar.
AsJson(xs) == json_dumps(xs)
AsCommas(xs) == Join(xs, <<",">>)

\* The trimmed non-empty items, in input order.
Trimmed(xs) ==
    LET keep == {i \in 1..Len(xs) : strip(xs[i]) # <<>>}
        nth(k) == CHOOSE i \in keep : Cardinality({j \in keep : j < i}) = k - 1
    IN  [k \in 1..Cardinality(keep) |-> strip(xs[nth(k)])]

\* The items without repetitions, each at the place of its first occurrence.
FirstSeen(xs) ==
    LET keep == {i \in 1..Len(xs) : \A j \in 1..(i - 1) : xs[j] # xs[i]}
        nth(k) == CHOOSE i \in keep : Cardinality({j \in keep : j < i}) = k - 1
    IN  [k \in 1..Cardinality(keep) |-> xs[nth(k)]]

NormalFields(xs) ==
    FirstSeen([k \in 1..Len(Trimmed(xs)) |-> lower(Trimmed(xs)[k])])

DefaultFields == <<FieldTitle, FieldSummary, FieldContent>>

\* add_feed_filter for the feed i under a fresh name stores and returns the
\* filter with the given sequences, and list_feed_filters reads it back so.
FilterCarries(i, include_text, exclude_text, fields_text, include, exclude, fields) ==
    LET r == add_feed_filter(Db, i, <<"n">>, include_text, exclude_text, fields_text,
                             TRUE, utc_now_iso(now))
        listed == list_feed_filters(r.db, i, FALSE)
    IN  /\ ~r.raised
        /\ r.filter.include_keywords = include
        /\ r.filter.exclude_keywords = exclude
        /\ r.filter.match_fields = fields
        /\ \E k \in 1..Len(listed) : listed[k] = r.filter
        /\ \A k \in 1..Len(listed) : listed[k].id = r.id => listed[k] = r.filter

\* C26 (SpecFilters): a list of keywords or of field names written as a JSON
\* array and written with commas parses to the same sequence, the trimmed
\* non-empty items in input order; field names are also lower-cased and
\* repetitions dropped, the first occurrence staying in place, and a blank text
\* gives title, summary, content; the filter add_feed_filter returns and
\* list_feed_filters reads back carries these sequences.
KeywordGrammarsAgree ==
    Idle =>
        /\ \A xs \in KeywordLists :
              /\ parse_keywords(AsJson(xs)) = [raised |-> FALSE, value |-> Trimmed(xs)]
              /\ parse_keywords(AsCommas(xs)) = [raised |-> FALSE, value |-> Trimmed(xs)]
        /\ \A xs \in FieldLists :
              Trimmed(xs) # <<>> =>
                /\ parse_match_fields(AsJson(xs))
                      = [raised |-> FALSE, value |-> NormalFields(xs)]
                /\ parse_match_fields(AsCommas(xs))
                      = [raised |-> FALSE, value |-> NormalFields(xs)]
        /\ \A blank \in {None, <<>>, <<" ">>} :
              parse_match_fields(blank) = [raised |-> FALSE, value |-> DefaultFields]
        /\ \A i \in DOMAIN feeds :
              \A inc \in {<< <<" ", "b">>, <<"A">> >>, << <<"A", " ", "b", " ">> >>},
                 exc \in {<<>>, << <<" ">>, <<"A">> >>},
                 fld \in {<< <<"C", "O", "N", "T", "E", "N", "T">>, FieldTitle,
                             <<"T">> \o Tail(FieldTitle) \o <<" ">> >>} :
                  /\ FilterCarries(i, AsJson(inc), AsJson(exc), AsJson(fld),
                                   Trimmed(inc), Trimmed(exc), NormalFields(fld))
                  /\ FilterCarries(i, AsCommas(inc), AsCommas(exc), AsCommas(fld),
                                   Trimmed(inc), Trimmed(exc), NormalFields(fld))
                  /\ FilterCarries(i, AsCommas(inc), AsJson(exc), <<" ">>,
                                   Trimmed(inc), Trimmed(exc), DefaultFields)

\* C26, the case: a filter given as A with blank match fields is stored; its row
\* holds the JSON texts, list_feed_filters reads the sequences back, and a
\* second filter for the same feed given as a JSON array would carry the same.
FilterReadBack ==
    /\ Idle
    /\ \E f \in feed_filters :
          /\ f.include_keywords = <<"[", Quote, "A", Quote, "]">>
          /\ f.match_fields = json_dumps(DefaultFields)
          /\ \E k \in {1} :
                /\ list_feed_filters(Db, f.feed_id, FALSE)[k].include_keywords = << <<"A">> >>
                /\ list_feed_filters(Db, f.feed_id, FALSE)[k].match_fields = DefaultFields
          /\ add_feed_filter(Db, f.feed_id, <<"n">>, <<"[", Quote, "A", Quote, "]">>,
                             <<>>, <<>>, FALSE, utc_now_iso(now)).filter.include_keywords
                = << <<"A">> >>

\* An optional text of at most max characters: absent, or not empty and without
\* whitespace at either end.
TrimmedText(v, max) ==
    \/ v = None
    \/ /\ v # <<>>
       /\ Len(v) <= max
       /\ v[1] # " "
       /\ v[Len(v)] # " "

\* C27 (SpecItems), as the specification states it: the title, link and author
\* of every stored entry are absent or non-empty texts without leading or
\* trailing whitespace, of at most 2000, 4000 and 1000 characters.
StoredTextsTrimmed ==
    \A e \in entries :
        /\ TrimmedText(e.title, EntryTitleMax)
        /\ TrimmedText(e.link, EntryLinkMax)
        /\ TrimmedText(e.author, EntryAuthorMax)

\* What parse may answer in a run: it raises, or returns a result without ETag
\* and feed title.
RunResults ==
    {ParseRaised} \cup {d \in FetchResults : d.etag = None /\ d.title = None}

\* A step of the loop of fetch_all adds to entries_inserted the number of rows
\* it added to the store and counts its feed as fetched or as an error; the
\* step that starts the run counts from zero and adds no row.
RunStepCounted ==
    /\ (pc = "fetching" /\ pc' = "fetching") =>
          /\ summary'.entries_inserted - summary.entries_inserted
                = Cardinality(entries') - Cardinality(entries)
          /\ entries \subseteq entries'
          /\ summary'.feeds_fetched + Len(summary'.errors)
                = summary.feeds_fetched + Len(summary.errors) + 1
          /\ summary'.feeds_total = summary.feeds_total
    /\ (pc = "idle" /\ pc' = "fetching") =>
          /\ summary'.entries_inserted = 0
          /\ summary'.feeds_fetched + Len(summary'.errors) = 0
          /\ summary'.feeds_total = Len(pending')
          /\ entries' = entries

\* The summary fetch_all is about to return accounts for every feed.
RunSummed ==
    pc = "fetching" =>
        summary.feeds_fetched + Len(summary.errors) + Len(pending) = summary.feeds_total

\* A whole run from the store at hand, whatever parse answers for each feed.
RunConsistent ==
    Idle =>
        \A results \in [DOMAIN feeds -> RunResults] :
            LET r == fetch_all(Db, results, now)
            IN  /\ r.summary.feeds_total = Cardinality(DOMAIN feeds)
                /\ r.summary.feeds_fetched + Len(r.summary.errors) = r.summary.feeds_total
                /\ r.summary.entries_inserted
                      = Cardinality(r.db.entries) - Cardinality(entries)
                /\ entries \subseteq r.db.entries

\* C28 (Spec): the summary of every run of fetch_all satisfies feeds_fetched +
\* number of errors = feeds_total, and entries_inserted is the number of
\* entries the store holds after the run minus the number before it, also when
\* passes of the run raise before or while they process their entries.
SummaryConsistentWithStore ==
    /\ [][RunStepCounted]_vars
    /\ []RunSummed
    /\ []RunConsistent

\* C28, the case: a run over two feeds is about to return; the first pass
\* stored an entry, the second raised while it processed its entries, and the
\* summary counts one feed fetched, one error and one entry inserted.
RunWithFailedPassSummed ==
    /\ pc = "fetching" /\ pending = <<>>
    /\ Len(attempted) = 2
    /\ last_pass = [status |-> 200, raised |-> TRUE]
    /\ summary.feeds_total = 2
    /\ summary.feeds_fetched = 1
    /\ Len(summary.errors) = 1
    /\ summary.entries_inserted = 1
    /\ Cardinality(entries) = 1

\* sub is seq with some of its elements left out.
RECURSIVE IsSubsequence(_, _)
IsSubsequence(sub, seq) ==
    IF sub = <<>> THEN TRUE
    ELSE IF seq = <<>> THEN FALSE
    ELSE IF Head(sub) = Head(seq) THEN IsSubsequence(Tail(sub), Tail(seq))
    ELSE IsSubsequence(sub, Tail(seq))

\* The entries of the feed i that an enabled filter of the feed matches and that
\* are not among the rows.
MatchingButNotIn(i, rows) ==
    {e \in entries :
        /\ e.feed_id = i
        /\ \A k \in 1..Len(rows) : rows[k] # e
        /\ \E f \in EnabledFiltersOf(Db, i) : entry_matches_filter(e, filter_from_row(f))}

\* C29 (SpecListing): for every feed, limit and date column,
\* get_filtered_entries_for_feed returns a subsequence of
\* get_last_entries_for_feed with the same arguments: no entry beyond the first
\* `limit` of the feed is returned, whether or not a filter matches it.
FilteredListingWithinLimit ==
    Idle =>
        \A i \in 1..MaxFeedRows, limit \in ListingLimits, p \in BOOLEAN :
            LET all == get_last_entries_for_feed(Db, i, limit, p)
                listed == get_filtered_entries_for_feed(Db, i, limit, p)
            IN  /\ IsSubsequence(listed, all)
                /\ Len(listed) <= ClampLimit(limit)
                /\ \A e \in MatchingButNotIn(i, all) :
                      \A k \in 1..Len(listed) : listed[k] # e

\* C29, the case: a feed has three entries and an enabled filter that matches
\* an older one of them but not the newest; with limit 1 the listing is empty.
ListingEmptyWhileOlderEntryMatches ==
    /\ Idle
    /\ \E i \in DOMAIN feeds :
          /\ Cardinality({e \in entries : e.feed_id = i}) = 3
          /\ Len(get_last_entries_for_feed(Db, i, 1, TRUE)) = 1
          /\ get_filtered_entries_for_feed(Db, i, 1, TRUE) = <<>>
          /\ MatchingButNotIn(i, get_last_entries_for_feed(Db, i, 1, TRUE)) # {}
          /\ get_filtered_entries_for_feed(Db, i, 50, TRUE) # <<>>

\* The words of the title, summary and content of a stored entry.
EntryWords(e) ==
    Range(Tokens(Coalesce(e.title, <<>>))) \cup Range(Tokens(Coalesce(e.summary, <<>>)))
        \cup Range(Tokens(Coalesce(e.content, <<>>)))

====
